---- MODULE Spec2Model ----
(***************************************************************************)
(* Semantic analysis of SpiceDB schemas: SymbolTable, TypeInferenceEngine, *)
(* DependencyGraph and SemanticAnalyzer.analyze, modelled from             *)
(* src/semantic-analyzer.                                                  *)
(***************************************************************************)
EXTENDS Integers, Sequences, FiniteSets, TLC

\* Depth of the call stack available to the recursive inference methods;
\* recursion deeper than this raises RangeError (stack overflow).
MaxCallDepth == 12

\* An optional field that is absent (undefined in the source).
Undefined == ""

FoldLeft(op(_, _), base, seq) ==
  LET F[i \in 0..Len(seq)] == IF i = 0 THEN base ELSE op(F[i - 1], seq[i])
  IN  F[Len(seq)]

Range(seq) == {seq[i] : i \in 1..Len(seq)}

(***************************************************************************)
(* AST (schema-parser/parser.ts, "AST Types")                              *)
(***************************************************************************)
RelationType(typeName, wildcard, relation) ==
  [typeName |-> typeName, wildcard |-> wildcard, relation |-> relation]

RelationDeclaration(name, types) == [name |-> name, types |-> types]

PermissionDeclaration(name, expression) ==
  [name |-> name, expression |-> expression]

ObjectTypeDefinition(name, relations, permissions) ==
  [type |-> "definition", name |-> name, relations |-> relations,
   permissions |-> permissions]

CaveatDefinition(name, parameters, expression) ==
  [type |-> "caveat", name |-> name, parameters |-> parameters,
   expression |-> expression]

IdentifierExpression(name) == [type |-> "identifier", name |-> name]
UnionExpression(operands) == [type |-> "union", operands |-> operands]
IntersectionExpression(operands) ==
  [type |-> "intersection", operands |-> operands]
ExclusionExpression(left, right) ==
  [type |-> "exclusion", left |-> left, right |-> right]
ArrowExpression(kind, left, target) ==
  [type |-> kind, left |-> left, target |-> target]

ArrowKinds == {"arrow", "any", "all"}

(***************************************************************************)
(* SymbolTable (semantic-analyzer/symbol-table.ts)                         *)
(* A Map is a function on the set of its keys; an optional result is a     *)
(* sequence of length 0 (undefined) or 1.                                  *)
(***************************************************************************)
EmptyMap == [k \in {} |-> k]

MapSet(map, key, value) ==
  [k \in DOMAIN map \cup {key} |-> IF k = key THEN value ELSE map[k]]

addDefinition(symbols, def) ==
  LET info ==
        [type |-> IF def.type = "definition" THEN "definition" ELSE "caveat",
         definition |-> def,
         relations |->
           IF def.type = "definition"
           THEN FoldLeft(LAMBDA m, rel : MapSet(m, rel.name, rel),
                         EmptyMap, def.relations)
           ELSE EmptyMap,
         permissions |->
           IF def.type = "definition"
           THEN FoldLeft(LAMBDA m, perm : MapSet(m, perm.name, perm),
                         EmptyMap, def.permissions)
           ELSE EmptyMap]
  IN  MapSet(symbols, def.name, info)

getDefinition(symbols, name) ==
  IF name \in DOMAIN symbols THEN <<symbols[name]>> ELSE <<>>

hasDefinition(symbols, name) == name \in DOMAIN symbols

getRelation(symbols, typeName, relationName) ==
  IF typeName \in DOMAIN symbols
     /\ relationName \in DOMAIN symbols[typeName].relations
  THEN <<symbols[typeName].relations[relationName]>>
  ELSE <<>>

getPermission(symbols, typeName, permissionName) ==
  IF typeName \in DOMAIN symbols
     /\ permissionName \in DOMAIN symbols[typeName].permissions
  THEN <<symbols[typeName].permissions[permissionName]>>
  ELSE <<>>

hasRelationOrPermission(symbols, typeName, name) ==
  IF typeName \notin DOMAIN symbols THEN FALSE
  ELSE name \in DOMAIN symbols[typeName].relations
       \/ name \in DOMAIN symbols[typeName].permissions

(***************************************************************************)
(* TypeInferenceEngine (semantic-analyzer/type-inference.ts)               *)
(* A result is RelationType[] ("list"), null ("null"), or the RangeError   *)
(* raised when the recursion exhausts the call stack ("throw").            *)
(***************************************************************************)
TypeList(types) == [kind |-> "list", types |-> types]
Null == [kind |-> "null", types |-> <<>>]
StackOverflow == [kind |-> "throw", types |-> <<>>]

\* `${typeName}${wildcard ? ':*' : ''}${relation ? '#' + relation : ''}`
typeKey(type) ==
  type.typeName \o (IF type.wildcard THEN ":*" ELSE "")
                \o (IF type.relation # Undefined
                    THEN "#" \o type.relation ELSE "")

RECURSIVE dedupFrom(_, _, _, _)
dedupFrom(types, i, seen, result) ==
  IF i > Len(types) THEN result
  ELSE LET key == typeKey(types[i])
       IN  IF key \notin seen
           THEN dedupFrom(types, i + 1, seen \cup {key},
                          Append(result, types[i]))
           ELSE dedupFrom(types, i + 1, seen, result)

\* deduplicateTypes returning its argument.
deduplicateTypes_keepAll(types) == types

deduplicateTypes(types) == dedupFrom(types, 1, {}, <<>>)

\* intersectTypes comparing typeName alone.
intersectTypes_byTypeName(a, b) ==
  LET bNames == {b[i].typeName : i \in 1..Len(b)}
  IN  deduplicateTypes(SelectSeq(a, LAMBDA typeA : typeA.typeName \in bNames))

intersectTypes(a, b) ==
  LET bKeys == {typeKey(b[i]) : i \in 1..Len(b)}
      result == SelectSeq(a, LAMBDA typeA : typeKey(typeA) \in bKeys)
  IN  deduplicateTypes(result)

RECURSIVE inferExpressionType(_, _, _, _, _)
RECURSIVE inferSubjectRelationType(_, _, _, _, _)
RECURSIVE resolveTypeRefs(_, _, _, _, _, _)
RECURSIVE unionOperands(_, _, _, _, _, _, _)
RECURSIVE intersectionOperands(_, _, _, _, _, _, _)
RECURSIVE arrowTargets(_, _, _, _, _, _, _)

\* resolveTypeRefs pushing every declared type as it is written.
resolveTypeRefs_asDeclared(symbols, types, i, resolved, callStack, depth) ==
  TypeList(resolved \o SubSeq(types, i, Len(types)))

\* The loop `for (const typeRef of rel.types)`: resolved holds the types
\* pushed so far; a sub-relation reference is resolved and spliced in.
resolveTypeRefs(symbols, types, i, resolved, callStack, depth) ==
  IF i > Len(types) THEN TypeList(resolved)
  ELSE
    LET typeRef == types[i] IN
    IF typeRef.relation # Undefined
    THEN LET subjectRelationTypes ==
               inferSubjectRelationType(symbols, typeRef.typeName,
                                        typeRef.relation, callStack,
                                        depth + 1)
         IN  IF subjectRelationTypes.kind = "throw" THEN StackOverflow
             ELSE resolveTypeRefs(symbols, types, i + 1,
                    IF subjectRelationTypes.kind = "list"
                    THEN resolved \o subjectRelationTypes.types
                    ELSE resolved,
                    callStack, depth)
    ELSE resolveTypeRefs(symbols, types, i + 1, Append(resolved, typeRef),
                         callStack, depth)

inferSubjectRelationType(symbols, typeName, relationName, callStack, depth) ==
  IF depth > MaxCallDepth THEN StackOverflow
  ELSE
    LET targetRel == getRelation(symbols, typeName, relationName)
        targetPerm == getPermission(symbols, typeName, relationName)
        stackKey == typeName \o "#" \o relationName
    IN
    IF targetRel # <<>>
    THEN LET r == resolveTypeRefs(symbols, targetRel[1].types, 1, <<>>,
                                  callStack, depth)
         IN  IF r.kind = "throw" THEN StackOverflow
             ELSE TypeList(deduplicateTypes(r.types))
    ELSE IF targetPerm # <<>>
    THEN IF stackKey \in callStack THEN Null
         ELSE inferExpressionType(symbols, typeName, targetPerm[1].expression,
                                  callStack \cup {stackKey}, depth + 1)
    ELSE Null

inferIdentifier(symbols, defName, expr, callStack, depth) ==
  LET rel == getRelation(symbols, defName, expr.name)
      perm == getPermission(symbols, defName, expr.name)
      stackKey == defName \o "#" \o expr.name
  IN
  IF rel # <<>>
  THEN LET r == resolveTypeRefs(symbols, rel[1].types, 1, <<>>,
                                callStack, depth)
       IN  IF r.kind = "throw" THEN StackOverflow
           ELSE TypeList(deduplicateTypes(r.types))
  ELSE IF perm # <<>>
  THEN IF stackKey \in callStack THEN Null
       ELSE inferExpressionType(symbols, defName, perm[1].expression,
                                callStack \cup {stackKey}, depth + 1)
  ELSE Null

\* unionOperands giving up (null) at the first operand that fails.
RECURSIVE unionOperands_failFast(_, _, _, _, _, _, _)
unionOperands_failFast(symbols, defName, operands, i, allTypes, callStack, depth) ==
  IF i > Len(operands) THEN TypeList(deduplicateTypes(allTypes))
  ELSE
    LET types == inferExpressionType(symbols, defName, operands[i],
                                     callStack, depth + 1)
    IN  IF types.kind = "throw" THEN StackOverflow
        ELSE IF types.kind = "null" THEN Null
        ELSE unionOperands_failFast(symbols, defName, operands, i + 1,
               allTypes \o types.types, callStack, depth)

unionOperands(symbols, defName, operands, i, allTypes, callStack, depth) ==
  IF i > Len(operands) THEN TypeList(deduplicateTypes(allTypes))
  ELSE
    LET types == inferExpressionType(symbols, defName, operands[i],
                                     callStack, depth + 1)
    IN  IF types.kind = "throw" THEN StackOverflow
        ELSE unionOperands(symbols, defName, operands, i + 1,
               IF types.kind = "list" THEN allTypes \o types.types
               ELSE allTypes,
               callStack, depth)

inferUnion(symbols, defName, expr, callStack, depth) ==
  unionOperands(symbols, defName, expr.operands, 1, <<>>, callStack, depth)

intersectionOperands(symbols, defName, operands, i, commonTypes, callStack, depth) ==
  IF i > Len(operands) THEN commonTypes
  ELSE
    LET types == inferExpressionType(symbols, defName, operands[i],
                                     callStack, depth + 1)
    IN  IF types.kind = "throw" THEN StackOverflow
        ELSE IF types.kind = "null" THEN Null
        ELSE intersectionOperands(symbols, defName, operands, i + 1,
               IF commonTypes.kind = "null" THEN types
               ELSE TypeList(intersectTypes(commonTypes.types, types.types)),
               callStack, depth)

inferIntersection(symbols, defName, expr, callStack, depth) ==
  intersectionOperands(symbols, defName, expr.operands, 1, Null, callStack,
                       depth)

\* inferExclusion keeping only what the right side has too.
inferExclusion_intersect(symbols, defName, expr, callStack, depth) ==
  intersectionOperands(symbols, defName, <<expr.left, expr.right>>, 1, Null,
                       callStack, depth)

inferExclusion(symbols, defName, expr, callStack, depth) ==
  inferExpressionType(symbols, defName, expr.left, callStack, depth + 1)

\* The loop `for (const leftType of leftTypes)` of the arrow/any/all case.
arrowTargets(symbols, leftTypes, target, i, resultTypes, callStack, depth) ==
  IF i > Len(leftTypes) THEN TypeList(deduplicateTypes(resultTypes))
  ELSE
    LET leftType == leftTypes[i]
        targetRel == getRelation(symbols, leftType.typeName, target)
        afterRel == IF targetRel # <<>>
                    THEN resolveTypeRefs(symbols, targetRel[1].types, 1,
                                         resultTypes, callStack, depth)
                    ELSE TypeList(resultTypes)
        targetPerm == getPermission(symbols, leftType.typeName, target)
        stackKey == leftType.typeName \o "#" \o target
    IN
    IF afterRel.kind = "throw" THEN StackOverflow
    ELSE IF targetPerm # <<>> /\ stackKey \notin callStack
    THEN LET permTypes ==
               inferExpressionType(symbols, leftType.typeName,
                                   targetPerm[1].expression,
                                   callStack \cup {stackKey}, depth + 1)
         IN  IF permTypes.kind = "throw" THEN StackOverflow
             ELSE arrowTargets(symbols, leftTypes, target, i + 1,
                    IF permTypes.kind = "list"
                    THEN afterRel.types \o permTypes.types
                    ELSE afterRel.types,
                    callStack, depth)
    ELSE arrowTargets(symbols, leftTypes, target, i + 1, afterRel.types,
                      callStack, depth)

inferArrow(symbols, defName, expr, callStack, depth) ==
  LET leftTypes == inferExpressionType(symbols, defName, expr.left,
                                       callStack, depth + 1)
  IN  IF leftTypes.kind = "throw" THEN StackOverflow
      ELSE IF leftTypes.kind = "null" THEN Null
      ELSE arrowTargets(symbols, leftTypes.types, expr.target, 1, <<>>,
                        callStack, depth)

inferExpressionType(symbols, defName, expr, callStack, depth) ==
  IF depth > MaxCallDepth THEN StackOverflow
  ELSE CASE expr.type = "identifier" ->
              inferIdentifier(symbols, defName, expr, callStack, depth)
         [] expr.type = "union" ->
              inferUnion(symbols, defName, expr, callStack, depth)
         [] expr.type = "intersection" ->
              inferIntersection(symbols, defName, expr, callStack, depth)
         [] expr.type = "exclusion" ->
              inferExclusion(symbols, defName, expr, callStack, depth)
         [] expr.type \in ArrowKinds ->
              inferArrow(symbols, defName, expr, callStack, depth)
         [] OTHER -> Null

\* A top-level call: `callStack` defaults to a new Set.
infer(symbols, defName, expr) ==
  inferExpressionType(symbols, defName, expr, {}, 1)

(***************************************************************************)
(* DependencyGraph (semantic-analyzer/dependency-graph.ts)                 *)
(* adjacencyList is a Map of Sets, both iterated in insertion order: keys  *)
(* is the key order, adj[k] the insertion-ordered neighbours of k.         *)
(***************************************************************************)
EmptyGraph == [keys |-> <<>>, adj |-> EmptyMap]

addNode(graph, fullName) ==
  IF fullName \in DOMAIN graph.adj THEN graph
  ELSE [keys |-> Append(graph.keys, fullName),
        adj |-> MapSet(graph.adj, fullName, <<>>)]

addEdge(graph, from, to) ==
  LET g == IF from \in DOMAIN graph.adj THEN graph
           ELSE [keys |-> Append(graph.keys, from),
                 adj |-> MapSet(graph.adj, from, <<>>)]
  IN  [g EXCEPT !.adj[from] = IF to \in Range(@) THEN @ ELSE Append(@, to)]

indexOf(seq, x) == CHOOSE i \in 1..Len(seq) :
                     seq[i] = x /\ \A j \in 1..(i - 1) : seq[j] # x

RECURSIVE dfs(_, _, _, _)
RECURSIVE dfsNeighbors(_, _, _, _, _)

\* s = [visited, cycles]; path is the DFS path including the current node,
\* and recursionStack is the set of its elements.
dfsNeighbors(graph, neighbors, i, path, s) ==
  IF i > Len(neighbors) THEN s
  ELSE
    LET neighbor == neighbors[i] IN
    IF neighbor \notin s.visited
    THEN dfsNeighbors(graph, neighbors, i + 1, path,
                      dfs(graph, neighbor, path, s))
    ELSE IF neighbor \in Range(path)
    THEN LET cycleStart == indexOf(path, neighbor)
             cycle == SubSeq(path, cycleStart, Len(path)) \o <<neighbor>>
         IN  dfsNeighbors(graph, neighbors, i + 1, path,
                          [s EXCEPT !.cycles = Append(@, cycle)])
    ELSE dfsNeighbors(graph, neighbors, i + 1, path, s)

dfs(graph, node, path, s) ==
  LET neighbors == IF node \in DOMAIN graph.adj THEN graph.adj[node]
                   ELSE <<>>
  IN  dfsNeighbors(graph, neighbors, 1, Append(path, node),
                   [s EXCEPT !.visited = @ \cup {node}])

findCycles(graph) ==
  FoldLeft(LAMBDA s, node :
             IF node \notin s.visited THEN dfs(graph, node, <<>>, s) ELSE s,
           [visited |-> {}, cycles |-> <<>>], graph.keys).cycles

(***************************************************************************)
(* SemanticAnalyzer (semantic-analyzer/analyzer.ts)                        *)
(***************************************************************************)
criticalPreAugmentationErrorCodes ==
  {"DUPLICATE_DEFINITION", "UNDEFINED_TYPE", "UNDEFINED_RELATION",
   "DUPLICATE_MEMBER_NAME"}

\* fatalForUsageErrorCodes without 'UNDEFINED_ARROW_TARGET'.
fatalForUsageErrorCodes_withoutArrowTarget ==
  criticalPreAugmentationErrorCodes
    \cup {"CIRCULAR_DEPENDENCY", "UNDEFINED_IDENTIFIER",
          "AUGMENTATION_INTERNAL_ERROR"}

fatalForUsageErrorCodes ==
  criticalPreAugmentationErrorCodes
    \cup {"CIRCULAR_DEPENDENCY", "UNDEFINED_IDENTIFIER",
          "UNDEFINED_ARROW_TARGET", "AUGMENTATION_INTERNAL_ERROR"}

Location(definition, relation, permission) ==
  [definition |-> definition, relation |-> relation,
   permission |-> permission]

SemanticError(code, message, location) ==
  [type |-> "semantic_error", code |-> code, message |-> message,
   location |-> location]

addError(errs, code, message, location) ==
  Append(errs, SemanticError(code, message, location))

\* addWarning recording nothing.
addWarning_dropped(warns, code, message, location) == warns

addWarning(warns, code, message, location) ==
  Append(warns, SemanticError(code, message, location))

\* Array.prototype.join
RECURSIVE join(_, _)
join(strs, sep) ==
  IF Len(strs) = 0 THEN ""
  ELSE IF Len(strs) = 1 THEN strs[1]
  ELSE strs[1] \o sep \o join(Tail(strs), sep)

\* Phase 1.  Returns [definedNames, symbols, errors].
buildSymbolTable(tree) ==
  FoldLeft(
    LAMBDA acc, def :
      [definedNames |-> acc.definedNames \cup {def.name},
       symbols |-> addDefinition(acc.symbols, def),
       errors |->
         IF def.name \in acc.definedNames
         THEN addError(acc.errors, "DUPLICATE_DEFINITION",
                       "Duplicate definition name: " \o def.name,
                       Location(def.name, Undefined, Undefined))
         ELSE acc.errors],
    [definedNames |-> {}, symbols |-> EmptyMap, errors |-> <<>>],
    tree.definitions)

\* Phase 2.  ew = [errors, warnings].
validateRelation(symbols, defName, rel, ew) ==
  FoldLeft(
    LAMBDA acc, type :
      LET e1 == IF ~hasDefinition(symbols, type.typeName)
                THEN addError(acc.errors, "UNDEFINED_TYPE",
                       "Undefined type '" \o type.typeName
                         \o "' in relation '" \o rel.name \o "'",
                       Location(defName, rel.name, Undefined))
                ELSE acc.errors
          targetType == getDefinition(symbols, type.typeName)
          e2 == IF type.relation # Undefined
                   /\ targetType # <<>>
                   /\ targetType[1].type = "definition"
                   /\ ~hasRelationOrPermission(symbols, type.typeName,
                                               type.relation)
                THEN addError(e1, "UNDEFINED_RELATION",
                       "Undefined relation '" \o type.relation
                         \o "' on type '" \o type.typeName \o "'",
                       Location(defName, rel.name, Undefined))
                ELSE e1
          w == IF type.wildcard
               THEN addWarning(acc.warnings, "WILDCARD_USAGE",
                      "Wildcard used in relation '" \o rel.name
                        \o "'. Be careful with public access.",
                      Location(defName, rel.name, Undefined))
               ELSE acc.warnings
      IN  [errors |-> e2, warnings |-> w],
    ew, rel.types)

\* validateObjectTypeDefinition with a set of names for the relations and
\* another for the permissions.
validateObjectTypeDefinition_twoNamespaces(symbols, def, ew) ==
  LET afterRelations ==
        FoldLeft(
          LAMBDA acc, rel :
            LET e == IF rel.name \in acc.names
                     THEN addError(acc.errors, "DUPLICATE_MEMBER_NAME",
                            "Duplicate relation/permission name '"
                              \o rel.name \o "' in " \o def.name,
                            Location(def.name, rel.name, Undefined))
                     ELSE acc.errors
                v == validateRelation(symbols, def.name, rel,
                       [errors |-> e, warnings |-> acc.warnings])
            IN  [names |-> acc.names \cup {rel.name},
                 errors |-> v.errors, warnings |-> v.warnings],
          [names |-> {}, errors |-> ew.errors, warnings |-> ew.warnings],
          def.relations)
      afterPermissions ==
        FoldLeft(
          LAMBDA acc, perm :
            [names |-> acc.names \cup {perm.name},
             errors |->
               IF perm.name \in acc.names
               THEN addError(acc.errors, "DUPLICATE_MEMBER_NAME",
                      "Duplicate relation/permission name '"
                        \o perm.name \o "' in " \o def.name,
                      Location(def.name, Undefined, perm.name))
               ELSE acc.errors,
             warnings |-> acc.warnings],
          [afterRelations EXCEPT !.names = {}], def.permissions)
  IN  [errors |-> afterPermissions.errors,
       warnings |-> afterPermissions.warnings]

validateObjectTypeDefinition(symbols, def, ew) ==
  LET afterRelations ==
        FoldLeft(
          LAMBDA acc, rel :
            LET e == IF rel.name \in acc.names
                     THEN addError(acc.errors, "DUPLICATE_MEMBER_NAME",
                            "Duplicate relation/permission name '"
                              \o rel.name \o "' in " \o def.name,
                            Location(def.name, rel.name, Undefined))
                     ELSE acc.errors
                v == validateRelation(symbols, def.name, rel,
                       [errors |-> e, warnings |-> acc.warnings])
            IN  [names |-> acc.names \cup {rel.name},
                 errors |-> v.errors, warnings |-> v.warnings],
          [names |-> {}, errors |-> ew.errors, warnings |-> ew.warnings],
          def.relations)
      afterPermissions ==
        FoldLeft(
          LAMBDA acc, perm :
            [names |-> acc.names \cup {perm.name},
             errors |->
               IF perm.name \in acc.names
               THEN addError(acc.errors, "DUPLICATE_MEMBER_NAME",
                      "Duplicate relation/permission name '"
                        \o perm.name \o "' in " \o def.name,
                      Location(def.name, Undefined, perm.name))
               ELSE acc.errors,
             warnings |-> acc.warnings],
          afterRelations, def.permissions)
  IN  [errors |-> afterPermissions.errors,
       warnings |-> afterPermissions.warnings]

validTypes ==
  {"int", "uint", "string", "bool", "bytes", "list", "map", "timestamp",
   "duration"}

validateCaveatDefinition(def, ew) ==
  LET e1 == FoldLeft(
              LAMBDA errs, param :
                IF param.type \notin validTypes
                THEN addError(errs, "INVALID_PARAMETER_TYPE",
                       "Invalid parameter type '" \o param.type
                         \o "' in caveat '" \o def.name \o "'",
                       Location(def.name, Undefined, Undefined))
                ELSE errs,
              ew.errors, def.parameters)
      paramNames == {def.parameters[i].name : i \in 1..Len(def.parameters)}
      e2 == IF def.expression.left \notin paramNames
            THEN addError(e1, "UNDEFINED_CAVEAT_PARAMETER",
                   "Unknown parameter '" \o def.expression.left
                     \o "' in caveat expression",
                   Location(def.name, Undefined, Undefined))
            ELSE e1
  IN  [errors |-> e2, warnings |-> ew.warnings]

validateDefinitions(symbols, tree, ew) ==
  FoldLeft(
    LAMBDA acc, def :
      IF def.type = "definition"
      THEN validateObjectTypeDefinition(symbols, def, acc)
      ELSE IF def.type = "caveat" THEN validateCaveatDefinition(def, acc)
      ELSE acc,
    ew, tree.definitions)

\* Phase 3.  acc = [graph, thrown]; thrown records that type inference
\* raised, which leaves analyze through the (uncaught) exception.
RECURSIVE addExpressionDependencies(_, _, _, _, _)
addExpressionDependencies(symbols, acc, defName, permName, expr) ==
  LET fromNode == defName \o "#" \o permName IN
  IF acc.thrown THEN acc
  ELSE
  CASE expr.type = "identifier" ->
         IF hasRelationOrPermission(symbols, defName, expr.name)
         THEN LET toNode == defName \o "#" \o expr.name
              IN  [acc EXCEPT
                     !.graph = addEdge(addNode(@, toNode), fromNode, toNode)]
         ELSE acc
    [] expr.type \in {"union", "intersection"} ->
         FoldLeft(LAMBDA a, operand :
                    addExpressionDependencies(symbols, a, defName, permName,
                                              operand),
                  acc, expr.operands)
    [] expr.type = "exclusion" ->
         addExpressionDependencies(symbols,
           addExpressionDependencies(symbols, acc, defName, permName,
                                     expr.left),
           defName, permName, expr.right)
    [] expr.type \in ArrowKinds ->
         LET leftTypes == infer(symbols, defName, expr.left)
             withTargets ==
               IF leftTypes.kind = "list"
               THEN FoldLeft(
                      LAMBDA g, leftType :
                        LET toNode == leftType.typeName \o "#" \o expr.target
                        IN  addEdge(addNode(g, toNode), fromNode, toNode),
                      acc.graph, leftTypes.types)
               ELSE acc.graph
         IN  IF leftTypes.kind = "throw" THEN [acc EXCEPT !.thrown = TRUE]
             ELSE addExpressionDependencies(symbols,
                    [acc EXCEPT !.graph = withTargets],
                    defName, permName, expr.left)
    [] OTHER -> acc

buildDependencyGraph(symbols, tree) ==
  FoldLeft(
    LAMBDA acc, def :
      IF def.type = "definition"
      THEN FoldLeft(
             LAMBDA a, perm :
               IF a.thrown THEN a
               ELSE addExpressionDependencies(symbols,
                      [a EXCEPT
                         !.graph = addNode(@, def.name \o "#" \o perm.name)],
                      def.name, perm.name, perm.expression),
             acc, def.permissions)
      ELSE acc,
    [graph |-> EmptyGraph, thrown |-> FALSE], tree.definitions)

\* isSelfReference without the exception: every cycle is an error.
isSelfReference_never(cycle) == FALSE

\* isSelfReference comparing the ends of the path only, without its length.
isSelfReference_closedPath(cycle) ==
  Len(cycle) >= 2 /\ cycle[1] = cycle[Len(cycle)]

\* A direct self-reference appears as [perm, perm] and is not an error.
isSelfReference(cycle) == Len(cycle) = 2 /\ cycle[1] = cycle[2]

cycleErrors(errs, cycles) ==
  FoldLeft(
    LAMBDA e, cycle :
      IF isSelfReference(cycle) THEN e
      ELSE addError(e, "CIRCULAR_DEPENDENCY",
             "Circular dependency detected: " \o join(cycle, " -> "),
             Location(Undefined, Undefined, Undefined)),
    errs, cycles)

\* targetFound asking for the target on every resolved type.
targetFound_onEveryType(symbols, leftTypes, target) ==
  \A i \in 1..Len(leftTypes) :
    hasRelationOrPermission(symbols, leftTypes[i].typeName, target)

\* validateExpression, the loop over leftTypes that sets targetFound.
targetFound(symbols, leftTypes, target) ==
  \E i \in 1..Len(leftTypes) :
    hasRelationOrPermission(symbols, leftTypes[i].typeName, target)

\* validateExpression looking at the root of the expression only.
validateExpression_rootOnly(symbols, defName, expr, acc) ==
  IF expr.type = "identifier"
     /\ ~hasRelationOrPermission(symbols, defName, expr.name)
  THEN [acc EXCEPT !.errors =
          addError(@, "UNDEFINED_IDENTIFIER",
            "Undefined identifier '" \o expr.name \o "' in type '"
              \o defName \o "'",
            Location(defName, Undefined, Undefined))]
  ELSE acc

\* Phase 4.  acc = [errors, thrown].
RECURSIVE validateExpression(_, _, _, _)
validateExpression(symbols, defName, expr, acc) ==
  IF acc.thrown THEN acc
  ELSE
  CASE expr.type = "identifier" ->
         IF ~hasRelationOrPermission(symbols, defName, expr.name)
         THEN [acc EXCEPT !.errors =
                 addError(@, "UNDEFINED_IDENTIFIER",
                   "Undefined identifier '" \o expr.name \o "' in type '"
                     \o defName \o "'",
                   Location(defName, Undefined, Undefined))]
         ELSE acc
    [] expr.type \in {"union", "intersection"} ->
         FoldLeft(
           LAMBDA a, operand : validateExpression(symbols, defName, operand, a),
           IF Len(expr.operands) < 2
           THEN [acc EXCEPT !.errors =
                   addError(@, "INVALID_EXPRESSION",
                     expr.type \o " expression must have at least 2 operands",
                     Location(defName, Undefined, Undefined))]
           ELSE acc,
           expr.operands)
    [] expr.type = "exclusion" ->
         validateExpression(symbols, defName, expr.right,
           validateExpression(symbols, defName, expr.left, acc))
    [] expr.type \in ArrowKinds ->
         LET afterLeft == validateExpression(symbols, defName, expr.left, acc)
             leftTypes == infer(symbols, defName, expr.left)
             resolvedTypeNames ==
               join([i \in 1..Len(leftTypes.types) |->
                       leftTypes.types[i].typeName], ", ")
             leftName == IF expr.left.type = "identifier" THEN expr.left.name
                         ELSE "undefined"
         IN  IF afterLeft.thrown THEN afterLeft
             ELSE IF leftTypes.kind = "throw"
             THEN [afterLeft EXCEPT !.thrown = TRUE]
             ELSE IF leftTypes.kind = "list"
                     /\ ~targetFound(symbols, leftTypes.types, expr.target)
             THEN [afterLeft EXCEPT !.errors =
                     addError(@, "UNDEFINED_ARROW_TARGET",
                       "Target '" \o expr.target
                         \o "' not found on resolved types ["
                         \o resolvedTypeNames
                         \o "] for expression starting with '"
                         \o leftName \o "'",
                       Location(defName, Undefined, Undefined))]
             ELSE afterLeft
    [] OTHER -> acc

validateExpressions(symbols, tree, errs) ==
  FoldLeft(
    LAMBDA acc, def :
      IF def.type = "definition"
      THEN FoldLeft(
             LAMBDA a, perm :
               validateExpression(symbols, def.name, perm.expression, a),
             acc, def.permissions)
      ELSE acc,
    [errors |-> errs, thrown |-> FALSE], tree.definitions)

\* isEmptyPermission holding of a permission that names nothing but itself.
isEmptyPermission_bareIdentifier(expr) == expr.type = "identifier"

\* Phase 5.
isEmptyPermission(expr) == FALSE

performAdditionalChecks(tree, warns) ==
  LET objectDefs == {d \in Range(tree.definitions) : d.type = "definition"}
      usedTypes ==
        UNION {UNION {{rel.types[j].typeName : j \in 1..Len(rel.types)} :
                        rel \in Range(d.relations)} : d \in objectDefs}
      unused ==
        FoldLeft(
          LAMBDA w, def :
            IF def.type = "definition" /\ def.name \notin usedTypes
               /\ def.name # "user"
            THEN addWarning(w, "UNUSED_DEFINITION",
                   "Definition '" \o def.name
                     \o "' is not referenced anywhere",
                   Location(def.name, Undefined, Undefined))
            ELSE w,
          warns, tree.definitions)
  IN  FoldLeft(
        LAMBDA w, def :
          IF def.type = "definition"
          THEN FoldLeft(
                 LAMBDA w2, perm :
                   IF isEmptyPermission(perm.expression)
                   THEN addWarning(w2, "EMPTY_PERMISSION",
                          "Permission '" \o perm.name \o "' in '" \o def.name
                            \o "' has no granting mechanism",
                          Location(def.name, Undefined, perm.name))
                   ELSE w2,
                 w, def.permissions)
          ELSE w,
        unused, tree.definitions)

\* augmentAst: acc = [definitions, thrown]; an exception is caught, reported
\* as AUGMENTATION_INTERNAL_ERROR, and the result is undefined (<<>>).
augmentDefinitions(symbols, tree) ==
  FoldLeft(
    LAMBDA acc, def :
      IF acc.thrown THEN acc
      ELSE IF def.type = "definition"
      THEN LET perms ==
                 FoldLeft(
                   LAMBDA a, perm :
                     IF a.thrown THEN a
                     ELSE LET inferredTypes ==
                                infer(symbols, def.name, perm.expression)
                          IN  IF inferredTypes.kind = "throw"
                              THEN [a EXCEPT !.thrown = TRUE]
                              ELSE [a EXCEPT !.permissions =
                                      Append(@,
                                        [f \in DOMAIN perm
                                                  \cup {"inferredSubjectTypes"}
                                           |-> IF f = "inferredSubjectTypes"
                                               THEN inferredTypes
                                               ELSE perm[f]])],
                   [permissions |-> <<>>, thrown |-> FALSE],
                   def.permissions)
           IN  IF perms.thrown THEN [acc EXCEPT !.thrown = TRUE]
               ELSE [acc EXCEPT !.definitions =
                       Append(@, [type |-> "definition", name |-> def.name,
                                  relations |-> def.relations,
                                  permissions |-> perms.permissions])]
      ELSE IF def.type = "caveat"
      THEN [acc EXCEPT !.definitions = Append(@, def)]
      ELSE acc,
    [definitions |-> <<>>, thrown |-> FALSE], tree.definitions)

augmentAst(symbols, tree, errs) ==
  LET built == augmentDefinitions(symbols, tree) IN
  IF built.thrown
  THEN [augmentedAst |-> <<>>,
        errors |-> addError(errs, "AUGMENTATION_INTERNAL_ERROR",
                     "Internal error during AST augmentation: "
                       \o "Maximum call stack size exceeded",
                     Location(Undefined, Undefined, Undefined))]
  ELSE [augmentedAst |-> <<[definitions |-> built.definitions]>>,
        errors |-> errs]

\* this.errors.length = 0: the array the field points to is emptied and kept.
newArray_emptied(current, count) == current

\* this.errors = []: the identity of a new array, given the one the field
\* points to and the number of arrays created so far.
newArray(current, count) == count + 1

\* new SemanticAnalyzer().analyze(ast): <<>> when analyze throws, else the
\* SchemaAnalysisResult.
analyzeSpiceDbSchema(tree) ==
  LET built == buildSymbolTable(tree)
      validated == validateDefinitions(built.symbols, tree,
                     [errors |-> built.errors, warnings |-> <<>>])
      dependencies == buildDependencyGraph(built.symbols, tree)
      checked == validateExpressions(built.symbols, tree,
                   cycleErrors(validated.errors,
                               findCycles(dependencies.graph)))
      isValid == Len(checked.errors) = 0
      isFatalForUsage ==
        \E i \in 1..Len(checked.errors) :
          checked.errors[i].code \in fatalForUsageErrorCodes
      augmented == augmentAst(built.symbols, tree, checked.errors)
  IN  IF dependencies.thrown THEN <<>>
      ELSE IF checked.thrown THEN <<>>
      ELSE <<[augmentedAst |-> IF isFatalForUsage THEN <<>>
                              ELSE augmented.augmentedAst,
              symbolTable |-> built.symbols,
              errors |-> augmented.errors,
              warnings |-> performAdditionalChecks(tree, validated.warnings),
              isValid |-> isValid]>>

(***************************************************************************)
(* Lexer (schema-parser/parser.ts, "Lexer Definition")                     *)
(* A text is the sequence of its lexemes, the maximal stretches one token  *)
(* pattern matches; a stretch no pattern matches is a lexeme of its own.   *)
(***************************************************************************)
KeywordTypes ==
  [definition |-> "Definition", caveat |-> "Caveat", relation |-> "Relation",
   permission |-> "Permission", any |-> "Any", all |-> "All"]

OperatorTypes ==
  ("+" :> "Plus") @@ ("-" :> "Minus") @@ ("&" :> "Ampersand")
    @@ ("->" :> "Arrow") @@ ("." :> "Dot") @@ ("#" :> "Hash")
    @@ (":" :> "Colon") @@ (";" :> "Semicolon") @@ ("," :> "Comma")
    @@ ("==" :> "Equals") @@ ("=" :> "Assign") @@ ("*" :> "Star")
    @@ ("|" :> "Pipe") @@ ("(" :> "LParen") @@ (")" :> "RParen")
    @@ ("{" :> "LBrace") @@ ("}" :> "RBrace")

\* Lexemes matching /[a-zA-Z_][a-zA-Z0-9_]*/ that are no keyword.
IdentifierLexemes ==
  {"user", "doc", "a", "b", "c", "p", "q", "x", "y", "only", "int"}

\* Lexemes matching /0|[1-9]\d*/.
IntegerLexemes == {"1"}

\* Lexemes matching /\/\*\*[\s\S]*?\*\//.
DocCommentLexemes == {"/** d */", "/** e */"}

\* Lexemes of the BlockComment, LineComment and WhiteSpace patterns.
SkippedLexemes == {"/* c */", "// c", " "}

\* The token type whose pattern matches the lexeme, "" when none does.
tokenTypeOf(lexeme) ==
  IF lexeme \in DocCommentLexemes THEN "DocComment"
  ELSE IF lexeme \in SkippedLexemes THEN "SKIPPED"
  ELSE IF lexeme \in DOMAIN KeywordTypes THEN KeywordTypes[lexeme]
  ELSE IF lexeme \in IntegerLexemes THEN "Integer"
  ELSE IF lexeme \in IdentifierLexemes THEN "Identifier"
  ELSE IF lexeme \in DOMAIN OperatorTypes THEN OperatorTypes[lexeme]
  ELSE ""

createToken(tokenType, image) == [tokenType |-> tokenType, image |-> image]

\* SpiceDBLexer.tokenize leaving unmatched stretches out without an error.
tokenize_skippingUnknown(text) ==
  FoldLeft(
    LAMBDA acc, lexeme :
      LET tokenType == tokenTypeOf(lexeme) IN
      IF tokenType \in {"SKIPPED", ""} THEN acc
      ELSE IF tokenType = "DocComment"
      THEN [acc EXCEPT !.groups.comments =
              Append(@, createToken(tokenType, lexeme))]
      ELSE [acc EXCEPT !.tokens = Append(@, createToken(tokenType, lexeme))],
    [tokens |-> <<>>, groups |-> [comments |-> <<>>], errors |-> <<>>],
    text)

\* SpiceDBLexer.tokenize: tokens of a SKIPPED group are dropped, DocComment
\* tokens go to the group 'comments' and not to the token vector, and an
\* unmatched stretch is reported and skipped.
tokenize(text) ==
  FoldLeft(
    LAMBDA acc, lexeme :
      LET tokenType == tokenTypeOf(lexeme) IN
      IF tokenType = "SKIPPED" THEN acc
      ELSE IF tokenType = "DocComment"
      THEN [acc EXCEPT !.groups.comments =
              Append(@, createToken(tokenType, lexeme))]
      ELSE IF tokenType = ""
      THEN [acc EXCEPT !.errors =
              Append(@, [message |-> "unexpected character: ->" \o lexeme
                                       \o "<- skipped",
                         line |-> 1, column |-> 1])]
      ELSE [acc EXCEPT !.tokens = Append(@, createToken(tokenType, lexeme))],
    [tokens |-> <<>>, groups |-> [comments |-> <<>>], errors |-> <<>>],
    text)

(***************************************************************************)
(* SpiceDBParser (schema-parser/parser.ts, "Parser Definition")            *)
(* A rule takes the token vector and a position and gives the position     *)
(* after it with its CST node, or the recognition exception it raised.  A  *)
(* CST node holds, per token type, label or rule name, the children        *)
(* consumed under that key in order; an empty sequence is an absent key.   *)
(* The children labelled 'name' are held under nameLabel, name being the   *)
(* rule of the node.  with_x(x) is the rest of a rule after the subrule    *)
(* whose result is x.                                                      *)
(***************************************************************************)
RuleOk(pos, node) == [ok |-> TRUE, pos |-> pos, node |-> node, error |-> ""]

RuleFail(pos, exception) ==
  [ok |-> FALSE, pos |-> pos, node |-> <<>>, error |-> exception]

\* Type of the k-th token of lookahead.
LA(tokens, pos, k) ==
  IF pos + k - 1 <= Len(tokens) THEN tokens[pos + k - 1].tokenType ELSE "EOF"

\* CONSUME of each of the types in turn succeeds from pos on.
consumes(tokens, pos, types) ==
  \A k \in 1..Len(types) : LA(tokens, pos, k) = types[k]

RECURSIVE SpiceDBParser_permissionExpression(_, _)
RECURSIVE SpiceDBParser_arrowExpression_MANY(_, _, _)
RECURSIVE SpiceDBParser_exclusionExpression_MANY(_, _, _)
RECURSIVE SpiceDBParser_intersectionExpression_MANY(_, _, _)
RECURSIVE SpiceDBParser_unionExpression_MANY(_, _, _)

SpiceDBParser_primaryExpression(tokens, pos) ==
  IF LA(tokens, pos, 1) = "Identifier"
  THEN RuleOk(pos + 1, [name |-> "primaryExpression",
                        Identifier |-> <<tokens[pos]>>,
                        permissionExpression |-> <<>>])
  ELSE IF LA(tokens, pos, 1) # "LParen"
  THEN RuleFail(pos, "NoViableAltException")
  ELSE LET with_inner(inner) ==
             IF ~inner.ok THEN inner
             ELSE IF LA(tokens, inner.pos, 1) # "RParen"
             THEN RuleFail(inner.pos, "MismatchedTokenException")
             ELSE RuleOk(inner.pos + 1,
                         [name |-> "primaryExpression", Identifier |-> <<>>,
                          permissionExpression |-> <<inner.node>>])
       IN  with_inner(SpiceDBParser_permissionExpression(tokens, pos + 1))

\* The MANY of arrowExpression: `-> target`, `.any(target)`, `.all(target)`.
SpiceDBParser_arrowExpression_MANY(tokens, pos, node) ==
  IF LA(tokens, pos, 1) = "Arrow"
  THEN IF LA(tokens, pos, 2) = "Identifier"
       THEN SpiceDBParser_arrowExpression_MANY(tokens, pos + 2,
              [node EXCEPT !.Arrow = Append(@, tokens[pos]),
                           !.arrowTarget = Append(@, tokens[pos + 1])])
       ELSE RuleFail(pos + 1, "MismatchedTokenException")
  ELSE IF LA(tokens, pos, 1) = "Dot"
  THEN IF LA(tokens, pos, 2) \notin {"Any", "All"}
       THEN RuleFail(pos + 1, "NoViableAltException")
       ELSE IF ~consumes(tokens, pos + 2, <<"LParen", "Identifier", "RParen">>)
       THEN RuleFail(pos + 2, "MismatchedTokenException")
       ELSE SpiceDBParser_arrowExpression_MANY(tokens, pos + 5,
              IF LA(tokens, pos, 2) = "Any"
              THEN [node EXCEPT !.anyTarget = Append(@, tokens[pos + 3])]
              ELSE [node EXCEPT !.allTarget = Append(@, tokens[pos + 3])])
  ELSE RuleOk(pos, node)

SpiceDBParser_arrowExpression(tokens, pos) ==
  LET with_primary(primary) ==
  IF ~primary.ok THEN primary
  ELSE SpiceDBParser_arrowExpression_MANY(tokens, primary.pos,
         [name |-> "arrowExpression", primaryExpression |-> <<primary.node>>,
          Arrow |-> <<>>, arrowTarget |-> <<>>, anyTarget |-> <<>>,
          allTarget |-> <<>>])
  IN  with_primary(SpiceDBParser_primaryExpression(tokens, pos))

SpiceDBParser_exclusionExpression_MANY(tokens, pos, node) ==
  IF LA(tokens, pos, 1) # "Minus" THEN RuleOk(pos, node)
  ELSE LET with_operand(operand) ==
       IF ~operand.ok THEN operand
       ELSE SpiceDBParser_exclusionExpression_MANY(tokens, operand.pos,
              [node EXCEPT !.Minus = Append(@, tokens[pos]),
                           !.arrowExpression = Append(@, operand.node)])
       IN  with_operand(SpiceDBParser_arrowExpression(tokens, pos + 1))

SpiceDBParser_exclusionExpression(tokens, pos) ==
  LET with_first(first) ==
  IF ~first.ok THEN first
  ELSE SpiceDBParser_exclusionExpression_MANY(tokens, first.pos,
         [name |-> "exclusionExpression", arrowExpression |-> <<first.node>>,
          Minus |-> <<>>])
  IN  with_first(SpiceDBParser_arrowExpression(tokens, pos))

SpiceDBParser_intersectionExpression_MANY(tokens, pos, node) ==
  IF LA(tokens, pos, 1) # "Ampersand" THEN RuleOk(pos, node)
  ELSE LET with_operand(operand) ==
       IF ~operand.ok THEN operand
       ELSE SpiceDBParser_intersectionExpression_MANY(tokens, operand.pos,
              [node EXCEPT !.Ampersand = Append(@, tokens[pos]),
                           !.exclusionExpression = Append(@, operand.node)])
       IN  with_operand(SpiceDBParser_exclusionExpression(tokens, pos + 1))

SpiceDBParser_intersectionExpression(tokens, pos) ==
  LET with_first(first) ==
  IF ~first.ok THEN first
  ELSE SpiceDBParser_intersectionExpression_MANY(tokens, first.pos,
         [name |-> "intersectionExpression",
          exclusionExpression |-> <<first.node>>, Ampersand |-> <<>>])
  IN  with_first(SpiceDBParser_exclusionExpression(tokens, pos))

SpiceDBParser_unionExpression_MANY(tokens, pos, node) ==
  IF LA(tokens, pos, 1) # "Plus" THEN RuleOk(pos, node)
  ELSE LET with_operand(operand) ==
       IF ~operand.ok THEN operand
       ELSE SpiceDBParser_unionExpression_MANY(tokens, operand.pos,
              [node EXCEPT !.Plus = Append(@, tokens[pos]),
                           !.intersectionExpression = Append(@, operand.node)])
       IN  with_operand(SpiceDBParser_intersectionExpression(tokens, pos + 1))

SpiceDBParser_unionExpression(tokens, pos) ==
  LET with_first(first) ==
  IF ~first.ok THEN first
  ELSE SpiceDBParser_unionExpression_MANY(tokens, first.pos,
         [name |-> "unionExpression",
          intersectionExpression |-> <<first.node>>, Plus |-> <<>>])
  IN  with_first(SpiceDBParser_intersectionExpression(tokens, pos))

SpiceDBParser_permissionExpression(tokens, pos) ==
  LET with_union(union) ==
  IF ~union.ok THEN union
  ELSE RuleOk(union.pos, [name |-> "permissionExpression",
                          unionExpression |-> <<union.node>>])
  IN  with_union(SpiceDBParser_unionExpression(tokens, pos))

\* OPTION(() => CONSUME(DocComment)): the DocComment children consumed.
optionDocComment(tokens, pos) ==
  IF LA(tokens, pos, 1) = "DocComment" THEN <<tokens[pos]>> ELSE <<>>

SpiceDBParser_relationType(tokens, pos) ==
  IF LA(tokens, pos, 1) # "Identifier"
  THEN RuleFail(pos, "MismatchedTokenException")
  ELSE LET node == [name |-> "relationType", typeName |-> <<tokens[pos]>>,
                    Star |-> <<>>, relation |-> <<>>]
       IN
       IF LA(tokens, pos + 1, 1) = "Colon"
       THEN IF LA(tokens, pos + 1, 2) = "Star"
            THEN RuleOk(pos + 3, [node EXCEPT !.Star = <<tokens[pos + 2]>>])
            ELSE RuleFail(pos + 2, "MismatchedTokenException")
       ELSE IF LA(tokens, pos + 1, 1) = "Hash"
       THEN IF LA(tokens, pos + 1, 2) = "Identifier"
            THEN RuleOk(pos + 3,
                        [node EXCEPT !.relation = <<tokens[pos + 2]>>])
            ELSE RuleFail(pos + 2, "MismatchedTokenException")
       ELSE RuleOk(pos + 1, node)

RECURSIVE SpiceDBParser_relationTypes_MANY(_, _, _)
SpiceDBParser_relationTypes_MANY(tokens, pos, node) ==
  IF LA(tokens, pos, 1) # "Pipe" THEN RuleOk(pos, node)
  ELSE LET with_type(type) ==
       IF ~type.ok THEN type
       ELSE SpiceDBParser_relationTypes_MANY(tokens, type.pos,
              [node EXCEPT !.relationType = Append(@, type.node)])
       IN  with_type(SpiceDBParser_relationType(tokens, pos + 1))

SpiceDBParser_relationTypes(tokens, pos) ==
  LET with_first(first) ==
  IF ~first.ok THEN first
  ELSE SpiceDBParser_relationTypes_MANY(tokens, first.pos,
         [name |-> "relationTypes", relationType |-> <<first.node>>])
  IN  with_first(SpiceDBParser_relationType(tokens, pos))

SpiceDBParser_relationDeclaration(tokens, pos) ==
  LET doc == optionDocComment(tokens, pos)
      at == pos + Len(doc)
  IN
  IF ~consumes(tokens, at, <<"Relation", "Identifier", "Colon">>)
  THEN RuleFail(at, "MismatchedTokenException")
  ELSE LET with_types(types) ==
       IF ~types.ok THEN types
       ELSE RuleOk(types.pos, [name |-> "relationDeclaration",
                               DocComment |-> doc,
                               nameLabel |-> <<tokens[at + 1]>>,
                               relationTypes |-> <<types.node>>])
       IN  with_types(SpiceDBParser_relationTypes(tokens, at + 3))

SpiceDBParser_permissionDeclaration(tokens, pos) ==
  LET doc == optionDocComment(tokens, pos)
      at == pos + Len(doc)
  IN
  IF ~consumes(tokens, at, <<"Permission", "Identifier", "Assign">>)
  THEN RuleFail(at, "MismatchedTokenException")
  ELSE LET with_expr(expr) ==
       IF ~expr.ok THEN expr
       ELSE RuleOk(expr.pos, [name |-> "permissionDeclaration",
                              DocComment |-> doc,
                              nameLabel |-> <<tokens[at + 1]>>,
                              permissionExpression |-> <<expr.node>>])
       IN  with_expr(SpiceDBParser_permissionExpression(tokens, at + 3))

\* The type that starts the declaration at pos, behind an optional
\* DocComment: the lookahead of the MANY/OR of schema and
\* objectTypeDefinition.
declarationAhead(tokens, pos) ==
  IF LA(tokens, pos, 1) = "DocComment" THEN LA(tokens, pos, 2)
  ELSE LA(tokens, pos, 1)

\* The MANY of objectTypeDefinition: relation and permission declarations.
RECURSIVE SpiceDBParser_objectTypeDefinition_MANY(_, _, _)
SpiceDBParser_objectTypeDefinition_MANY(tokens, pos, node) ==
  LET with_member(member, key) ==
        IF ~member.ok THEN member
        ELSE SpiceDBParser_objectTypeDefinition_MANY(tokens, member.pos,
               [node EXCEPT ![key] = Append(@, member.node)])
  IN
  IF declarationAhead(tokens, pos) = "Relation"
  THEN with_member(SpiceDBParser_relationDeclaration(tokens, pos),
                   "relationDeclaration")
  ELSE IF declarationAhead(tokens, pos) = "Permission"
  THEN with_member(SpiceDBParser_permissionDeclaration(tokens, pos),
                   "permissionDeclaration")
  ELSE RuleOk(pos, node)

SpiceDBParser_objectTypeDefinition(tokens, pos) ==
  LET doc == optionDocComment(tokens, pos)
      at == pos + Len(doc)
  IN
  IF ~consumes(tokens, at, <<"Definition", "Identifier", "LBrace">>)
  THEN RuleFail(at, "MismatchedTokenException")
  ELSE LET with_members(members) ==
       IF ~members.ok THEN members
       ELSE IF LA(tokens, members.pos, 1) # "RBrace"
       THEN RuleFail(members.pos, "MismatchedTokenException")
       ELSE RuleOk(members.pos + 1, members.node)
       IN  with_members(
             SpiceDBParser_objectTypeDefinition_MANY(tokens, at + 3,
               [name |-> "objectTypeDefinition", DocComment |-> doc,
                nameLabel |-> <<tokens[at + 1]>>,
                relationDeclaration |-> <<>>,
                permissionDeclaration |-> <<>>]))

SpiceDBParser_parameter(tokens, pos) ==
  IF ~consumes(tokens, pos, <<"Identifier", "Identifier">>)
  THEN RuleFail(pos, "MismatchedTokenException")
  ELSE RuleOk(pos + 2, [name |-> "parameter", paramName |-> <<tokens[pos]>>,
                        paramType |-> <<tokens[pos + 1]>>])

RECURSIVE SpiceDBParser_parameterList_MANY(_, _, _)
SpiceDBParser_parameterList_MANY(tokens, pos, node) ==
  IF LA(tokens, pos, 1) # "Comma" THEN RuleOk(pos, node)
  ELSE LET with_param(param) ==
       IF ~param.ok THEN param
       ELSE SpiceDBParser_parameterList_MANY(tokens, param.pos,
              [node EXCEPT !.parameter = Append(@, param.node)])
       IN  with_param(SpiceDBParser_parameter(tokens, pos + 1))

SpiceDBParser_parameterList(tokens, pos) ==
  LET with_first(first) ==
  IF ~first.ok THEN first
  ELSE SpiceDBParser_parameterList_MANY(tokens, first.pos,
         [name |-> "parameterList", parameter |-> <<first.node>>])
  IN  with_first(SpiceDBParser_parameter(tokens, pos))

SpiceDBParser_caveatExpression(tokens, pos) ==
  IF ~consumes(tokens, pos, <<"Identifier", "Equals", "Integer">>)
  THEN RuleFail(pos, "MismatchedTokenException")
  ELSE RuleOk(pos + 3, [name |-> "caveatExpression", left |-> <<tokens[pos]>>,
                        right |-> <<tokens[pos + 2]>>])

SpiceDBParser_caveatDefinition(tokens, pos) ==
  LET doc == optionDocComment(tokens, pos)
      at == pos + Len(doc)
  IN
  IF ~consumes(tokens, at, <<"Caveat", "Identifier", "LParen">>)
  THEN RuleFail(at, "MismatchedTokenException")
  ELSE LET with_params(params) ==
       IF ~params.ok THEN params
       ELSE IF ~consumes(tokens, params.pos, <<"RParen", "LBrace">>)
       THEN RuleFail(params.pos, "MismatchedTokenException")
       ELSE LET with_expr(expr) ==
            IF ~expr.ok THEN expr
            ELSE IF LA(tokens, expr.pos, 1) # "RBrace"
            THEN RuleFail(expr.pos, "MismatchedTokenException")
            ELSE RuleOk(expr.pos + 1,
                   [name |-> "caveatDefinition", DocComment |-> doc,
                    nameLabel |-> <<tokens[at + 1]>>,
                    parameterList |-> IF params.node = <<>> THEN <<>>
                                      ELSE <<params.node>>,
                    caveatExpression |-> <<expr.node>>])
            IN  with_expr(
                  SpiceDBParser_caveatExpression(tokens, params.pos + 2))
       IN  with_params(IF LA(tokens, at + 3, 1) = "Identifier"
                       THEN SpiceDBParser_parameterList(tokens, at + 3)
                       ELSE RuleOk(at + 3, <<>>))

\* The MANY of schema: caveat and object type definitions, each collected
\* under the key of its own rule.
RECURSIVE SpiceDBParser_schema_MANY(_, _, _)
SpiceDBParser_schema_MANY(tokens, pos, node) ==
  LET with_definition(def, key) ==
        IF ~def.ok THEN def
        ELSE SpiceDBParser_schema_MANY(tokens, def.pos,
               [node EXCEPT ![key] = Append(@, def.node)])
  IN
  IF declarationAhead(tokens, pos) = "Caveat"
  THEN with_definition(SpiceDBParser_caveatDefinition(tokens, pos),
                       "caveatDefinition")
  ELSE IF declarationAhead(tokens, pos) = "Definition"
  THEN with_definition(SpiceDBParser_objectTypeDefinition(tokens, pos),
                       "objectTypeDefinition")
  ELSE RuleOk(pos, node)

SpiceDBParser_schema(tokens, pos) ==
  SpiceDBParser_schema_MANY(tokens, pos,
    [name |-> "schema", caveatDefinition |-> <<>>,
     objectTypeDefinition |-> <<>>])

\* parserInstance.input = tokens; parserInstance.schema(): the first invoked
\* rule records the exception of a failed rule and gives no CST, and reports
\* the input it left unconsumed.
invokeSchema(tokens) ==
  LET with_top(top) ==
  IF ~top.ok
  THEN [cst |-> <<>>,
        errors |-> <<[message |-> top.error, token |-> top.pos]>>]
  ELSE IF top.pos <= Len(tokens)
  THEN [cst |-> <<top.node>>,
        errors |-> <<[message |-> "NotAllInputParsedException",
                      token |-> top.pos]>>]
  ELSE [cst |-> <<top.node>>, errors |-> <<>>]
  IN  with_top(SpiceDBParser_schema(tokens, 1))

(***************************************************************************)
(* SpiceDBVisitor (schema-parser/parser.ts, "CST to AST Visitor")          *)
(* docComment is a sequence of length 0 (undefined) or 1.                  *)
(***************************************************************************)
\* ctx.DocComment ? ctx.DocComment[0].image : undefined
docCommentOf(ctx) ==
  IF ctx.DocComment # <<>> THEN <<ctx.DocComment[1].image>> ELSE <<>>

RECURSIVE SpiceDBVisitor_permissionExpression(_)

SpiceDBVisitor_primaryExpression(ctx) ==
  IF ctx.Identifier # <<>>
  THEN IdentifierExpression(ctx.Identifier[1].image)
  ELSE SpiceDBVisitor_permissionExpression(ctx.permissionExpression[1])

\* One of the three loops of arrowExpression: wrap expr once per target.
wrapTargets(kind, targets, expr) ==
  FoldLeft(LAMBDA left, target : ArrowExpression(kind, left, target.image),
           expr, targets)

SpiceDBVisitor_arrowExpression(ctx) ==
  LET primary == SpiceDBVisitor_primaryExpression(ctx.primaryExpression[1])
      arrows == wrapTargets("arrow",
                            SubSeq(ctx.arrowTarget, 1, Len(ctx.Arrow)),
                            primary)
      anys == wrapTargets("any", ctx.anyTarget, arrows)
  IN  wrapTargets("all", ctx.allTarget, anys)

SpiceDBVisitor_exclusionExpression(ctx) ==
  IF ctx.Minus = <<>>
  THEN SpiceDBVisitor_arrowExpression(ctx.arrowExpression[1])
  ELSE LET operands ==
             [i \in 1..Len(ctx.arrowExpression) |->
                SpiceDBVisitor_arrowExpression(ctx.arrowExpression[i])]
       IN  ExclusionExpression(operands[1], operands[2])

\* intersectionExpression giving a union node.
SpiceDBVisitor_intersectionExpression_asUnion(ctx) ==
  IF ctx.Ampersand = <<>>
  THEN SpiceDBVisitor_exclusionExpression(ctx.exclusionExpression[1])
  ELSE UnionExpression(
         [i \in 1..Len(ctx.exclusionExpression) |->
            SpiceDBVisitor_exclusionExpression(ctx.exclusionExpression[i])])

SpiceDBVisitor_intersectionExpression(ctx) ==
  IF ctx.Ampersand = <<>>
  THEN SpiceDBVisitor_exclusionExpression(ctx.exclusionExpression[1])
  ELSE IntersectionExpression(
         [i \in 1..Len(ctx.exclusionExpression) |->
            SpiceDBVisitor_exclusionExpression(ctx.exclusionExpression[i])])

\* unionExpression wrapping a single operand too.
SpiceDBVisitor_unionExpression_alwaysWraps(ctx) ==
  UnionExpression(
    [i \in 1..Len(ctx.intersectionExpression) |->
       SpiceDBVisitor_intersectionExpression(ctx.intersectionExpression[i])])

SpiceDBVisitor_unionExpression(ctx) ==
  IF ctx.Plus = <<>>
  THEN SpiceDBVisitor_intersectionExpression(ctx.intersectionExpression[1])
  ELSE UnionExpression(
         [i \in 1..Len(ctx.intersectionExpression) |->
            SpiceDBVisitor_intersectionExpression(
              ctx.intersectionExpression[i])])

SpiceDBVisitor_permissionExpression(ctx) ==
  SpiceDBVisitor_unionExpression(ctx.unionExpression[1])

SpiceDBVisitor_permissionDeclaration(ctx) ==
  [name |-> ctx.nameLabel[1].image,
   docComment |-> docCommentOf(ctx),
   expression |->
     SpiceDBVisitor_permissionExpression(ctx.permissionExpression[1])]

SpiceDBVisitor_relationType(ctx) ==
  RelationType(ctx.typeName[1].image,
               ctx.Star # <<>>,
               IF ctx.Star = <<>> /\ ctx.relation # <<>>
               THEN ctx.relation[1].image ELSE Undefined)

SpiceDBVisitor_relationTypes(ctx) ==
  [i \in 1..Len(ctx.relationType) |->
     SpiceDBVisitor_relationType(ctx.relationType[i])]

SpiceDBVisitor_relationDeclaration(ctx) ==
  [name |-> ctx.nameLabel[1].image,
   docComment |-> docCommentOf(ctx),
   types |-> SpiceDBVisitor_relationTypes(ctx.relationTypes[1])]

SpiceDBVisitor_objectTypeDefinition(ctx) ==
  [type |-> "definition",
   name |-> ctx.nameLabel[1].image,
   docComment |-> docCommentOf(ctx),
   relations |->
     [i \in 1..Len(ctx.relationDeclaration) |->
        SpiceDBVisitor_relationDeclaration(ctx.relationDeclaration[i])],
   permissions |->
     [i \in 1..Len(ctx.permissionDeclaration) |->
        SpiceDBVisitor_permissionDeclaration(ctx.permissionDeclaration[i])]]

\* parseInt of an Integer image.
parseInt(image) == CASE image = "1" -> 1 [] OTHER -> 0

SpiceDBVisitor_caveatExpression(ctx) ==
  [left |-> ctx.left[1].image, operator |-> "equals",
   right |-> parseInt(ctx.right[1].image)]

SpiceDBVisitor_parameter(ctx) ==
  [name |-> ctx.paramName[1].image, type |-> ctx.paramType[1].image]

SpiceDBVisitor_parameterList(ctx) ==
  [i \in 1..Len(ctx.parameter) |-> SpiceDBVisitor_parameter(ctx.parameter[i])]

SpiceDBVisitor_caveatDefinition(ctx) ==
  [type |-> "caveat",
   name |-> ctx.nameLabel[1].image,
   docComment |-> docCommentOf(ctx),
   parameters |-> IF ctx.parameterList # <<>>
                  THEN SpiceDBVisitor_parameterList(ctx.parameterList[1])
                  ELSE <<>>,
   expression |-> SpiceDBVisitor_caveatExpression(ctx.caveatExpression[1])]

\* The caveat definitions are pushed first, then the object definitions.
SpiceDBVisitor_schema(ctx) ==
  [definitions |->
     [i \in 1..Len(ctx.caveatDefinition) |->
        SpiceDBVisitor_caveatDefinition(ctx.caveatDefinition[i])]
       \o [i \in 1..Len(ctx.objectTypeDefinition) |->
             SpiceDBVisitor_objectTypeDefinition(ctx.objectTypeDefinition[i])]]

(***************************************************************************)
(* Permissions builder (builder/types.ts, builder/write.ts,                *)
(* builder/transaction.ts).  A reference string is the sequence of its     *)
(* pieces: each ":" is a piece of its own, and so is every stretch between *)
(* two of them.                                                            *)
(***************************************************************************)
\* String.prototype.split(':'): the stretches between the separators.
RECURSIVE split(_, _, _)
split(ref, i, part) ==
  IF i > Len(ref) THEN <<part>>
  ELSE IF ref[i] = ":" THEN <<part>> \o split(ref, i + 1, "")
  ELSE split(ref, i + 1, part \o ref[i])

\* parseReference: [thrown, type, id]; a destructured element past the end
\* of the array is undefined, and !part holds of undefined and of ''.
parseReference(ref) ==
  LET parts == split(ref, 1, "")
      part1 == parts[1]
      part2 == IF Len(parts) >= 2 THEN parts[2] ELSE Undefined
  IN  IF part1 = "" \/ part2 = ""
      THEN [thrown |-> TRUE, type |-> "", id |-> ""]
      ELSE [thrown |-> FALSE, type |-> part1, id |-> part2]

\* new WriteOperation(operation, relation)
WriteOperation(operation, relation) ==
  [operation |-> operation, relation |-> relation, subjects |-> <<>>,
   resources |-> <<>>]

\* An argument of subject() and resource(): one reference or an array.
OneReference(ref) == [isArray |-> FALSE, value |-> ref]
ReferenceArray(refs) == [isArray |-> TRUE, value |-> refs]

\* subject(ref): this.subjects = Array.isArray(ref) ? ref : [ref]
WriteOperation_subject(this, ref) ==
  [this EXCEPT !.subjects = IF ref.isArray THEN ref.value ELSE <<ref.value>>]

\* resource(ref): this.resources = Array.isArray(ref) ? ref : [ref]
WriteOperation_resource(this, ref) ==
  [this EXCEPT !.resources = IF ref.isArray THEN ref.value ELSE <<ref.value>>]

RelationshipUpdate(this, subject, resource) ==
  [relationship |->
     [resource |-> [objectType |-> resource.type, objectId |-> resource.id],
      relation |-> this.relation,
      subject |->
        [object |-> [objectType |-> subject.type, objectId |-> subject.id]]],
   operation |-> IF this.operation = "grant" THEN "TOUCH" ELSE "DELETE"]

\* toRelationshipUpdates pairing the i-th subject with the i-th resource.
WriteOperation_toRelationshipUpdates_paired(this) ==
  LET n == IF Len(this.subjects) < Len(this.resources)
           THEN Len(this.subjects) ELSE Len(this.resources)
      parsed == [i \in 1..n |->
                   <<parseReference(this.subjects[i]),
                     parseReference(this.resources[i])>>]
  IN  IF \E i \in 1..n : parsed[i][1].thrown \/ parsed[i][2].thrown
      THEN [thrown |-> TRUE, updates |-> <<>>]
      ELSE [thrown |-> FALSE,
            updates |-> [i \in 1..n |->
                           RelationshipUpdate(this, parsed[i][1],
                                              parsed[i][2])]]

\* toRelationshipUpdates: [thrown, updates]; parseReference throws out of
\* the loops.
WriteOperation_toRelationshipUpdates(this) ==
  FoldLeft(
    LAMBDA outer, subjectRef :
      FoldLeft(
        LAMBDA acc, resourceRef :
          IF acc.thrown THEN acc
          ELSE LET subject == parseReference(subjectRef)
                   resource == parseReference(resourceRef)
               IN  IF subject.thrown \/ resource.thrown
                   THEN [acc EXCEPT !.thrown = TRUE]
                   ELSE [acc EXCEPT !.updates =
                           Append(@, RelationshipUpdate(this, subject,
                                                        resource))],
        outer, this.resources),
    [thrown |-> FALSE, updates |-> <<>>], this.subjects)

\* Transaction.toRelationshipUpdates: flatMap over the operations.
Transaction_toRelationshipUpdates(operations) ==
  FoldLeft(
    LAMBDA acc, operation :
      IF acc.thrown THEN acc
      ELSE LET built == WriteOperation_toRelationshipUpdates(operation)
           IN  IF built.thrown THEN [acc EXCEPT !.thrown = TRUE]
               ELSE [acc EXCEPT !.updates = @ \o built.updates],
    [thrown |-> FALSE, updates |-> <<>>], operations)

\* v1.WriteRelationshipsRequest.create({ updates })
WriteRelationshipsRequest(updates) == [updates |-> updates]

\* response.writtenAt?.token || null, with null as <<>>.
writtenAtToken(response) ==
  IF response.writtenAt = <<>> THEN <<>>
  ELSE IF response.writtenAt[1].token = "" THEN <<>>
  ELSE <<response.writtenAt[1].token>>

\* Transaction.toJSON
Transaction_toJSON(operations) == [operationCount |-> Len(operations)]

(***************************************************************************)
(* Inputs: the schemas handed to analyze.                                  *)
(***************************************************************************)
\* Number of top-level definitions of a schema.
MaxDefinitions == 2

SeqsFromTo(S, m, n) == UNION {[1..k -> S] : k \in m..n}

User == RelationType("user", FALSE, Undefined)
UserWildcard == RelationType("user", TRUE, Undefined)
Doc == RelationType("doc", FALSE, Undefined)
DocA == RelationType("doc", FALSE, "a")
DocB == RelationType("doc", FALSE, "b")
DocP == RelationType("doc", FALSE, "p")
OnlyA == RelationType("only", FALSE, "a")

\* Subject types of relation a: one type, or a plain type followed by one.
RelationTypes == {User, UserWildcard, Doc, DocA, DocP}

TypeLists ==
  {<<t>> : t \in RelationTypes}
    \cup {<<t, u>> : t \in {User, Doc}, u \in RelationTypes}

\* Relations of definition doc: none, relation a alone, or two relations
\* (a repeated name, a name shared with permission p, a chain a -> b).
RelationLists ==
  {<<>>}
    \cup {<<RelationDeclaration("a", ts)>> : ts \in TypeLists}
    \cup {<<RelationDeclaration("a", <<User>>), second>> :
            second \in {RelationDeclaration("a", <<Doc>>),
                        RelationDeclaration("p", <<User>>)}}
    \cup {<<RelationDeclaration("a", <<DocB>>), second>> :
            second \in {RelationDeclaration("b", <<DocA>>),
                        RelationDeclaration("b", <<User>>)}}
    \cup {<<RelationDeclaration("a", <<User, DocB>>),
            RelationDeclaration("b", <<Doc, UserWildcard>>)>>}
    \cup {<<RelationDeclaration("a", <<OnlyA>>)>>}

Leaves == {IdentifierExpression(n) : n \in {"a", "p", "q"}}

A == IdentifierExpression("a")
B == IdentifierExpression("b")
P == IdentifierExpression("p")
Q == IdentifierExpression("q")
R == IdentifierExpression("r")

Binary(x, y) ==
  {UnionExpression(<<x, y>>), IntersectionExpression(<<x, y>>),
   ExclusionExpression(x, y)}

Expressions ==
  Leaves
    \cup UNION {Binary(x, y) : <<x, y>> \in Leaves \X Leaves}
    \cup Binary(A, B) \cup Binary(B, A)
    \cup {ArrowExpression("arrow", x, t) : x \in Leaves, t \in {"a", "p", "q"}}
    \cup {ArrowExpression(k, A, "p") : k \in ArrowKinds}
    \cup UNION {Binary(x, ArrowExpression("arrow", A, t)) :
                  <<x, t>> \in {A, P} \X {"p", "q"}}
    \cup {ArrowExpression("arrow", UnionExpression(<<A, P>>), "p"),
          ArrowExpression("arrow", ArrowExpression("arrow", A, "a"), "p")}

\* Permissions of definition doc: none, p alone, p then q, q then p, p twice,
\* or p, q and r with p naming q and r, q naming p, and r naming q or p.
PermissionLists ==
  {<<>>}
    \cup {<<PermissionDeclaration("p", e)>> : e \in Expressions}
    \cup {<<PermissionDeclaration("p", e), PermissionDeclaration("q", f)>> :
            e \in Expressions, f \in {A, P}}
    \cup {<<PermissionDeclaration("q", e), PermissionDeclaration("p", f)>> :
            e \in {A, P}, f \in Leaves}
    \cup {<<PermissionDeclaration("p", e), PermissionDeclaration("p", f)>> :
            e \in {A}, f \in Leaves}
    \cup {<<PermissionDeclaration("p", e), PermissionDeclaration("q", P),
            PermissionDeclaration("r", f)>> :
            e \in {UnionExpression(<<Q, R>>), UnionExpression(<<R, Q>>)},
            f \in {P, Q}}

\* caveat only(x int) { x == 1 }
Only ==
  CaveatDefinition("only", <<[name |-> "x", type |-> "int"]>>,
                   [left |-> "x", operator |-> "equals", right |-> 1])

\* The definitions of a schema by name: user and doc in every order, and
\* doc beside the caveat.
Layouts ==
  SeqsFromTo({"user", "doc"}, 1, MaxDefinitions)
    \cup {<<"only", "doc">>, <<"doc", "only">>}

Schema(layout, rs, ps) ==
  [definitions |->
     [i \in 1..Len(layout) |->
        IF layout[i] = "doc" THEN ObjectTypeDefinition("doc", rs, ps)
        ELSE IF layout[i] = "only" THEN Only
        ELSE ObjectTypeDefinition("user", <<>>, <<>>)]]

Schemas ==
  {Schema(layout, rs, ps) :
     layout \in Layouts, rs \in RelationLists, ps \in PermissionLists}

(***************************************************************************)
(* Inputs: the texts handed to parseSpiceDBSchema.                         *)
(***************************************************************************)
\* Traversal suffixes after one primary.
MaxSuffixes == 2

\* Operands of one unparenthesized chain.
MaxOperands == 3

RECURSIVE Flatten(_)
Flatten(seqs) == IF seqs = <<>> THEN <<>> ELSE Head(seqs) \o Flatten(Tail(seqs))

Names == <<"a", "b", "c">>

\* The i-th name, starting over after the last.
NameAt(i) == Names[((i - 1) % Len(Names)) + 1]

SuffixText(kind, target) ==
  CASE kind = "arrow" -> <<"->", target>>
    [] kind = "any" -> <<".", "any", "(", target, ")">>
    [] kind = "all" -> <<".", "all", "(", target, ")">>

\* The suffixes of the given kinds; the k-th one has the k-th name as target.
SuffixChainText(kinds) ==
  Flatten([k \in 1..Len(kinds) |-> SuffixText(kinds[k], NameAt(k))])

SuffixChainTexts ==
  {<<"c">> \o SuffixChainText(kinds) :
     kinds \in SeqsFromTo(ArrowKinds, 1, MaxSuffixes)}

BinaryOperators == {"+", "&", "-"}

\* a op b op c ...: n operands joined by the same operator.
ChainText(op, n) ==
  Flatten([i \in 1..(2 * n - 1) |->
             IF i % 2 = 1 THEN <<NameAt((i + 1) \div 2)>> ELSE <<op>>])

ChainTexts == {ChainText(op, n) : op \in BinaryOperators, n \in 1..MaxOperands}

MixedTexts ==
  {<<"a", op1, "b", op2, "c">> : op1 \in BinaryOperators, op2 \in BinaryOperators}
    \cup {<<"a", op, "c", "->", "b">> : op \in BinaryOperators}
    \cup {<<"c", "->", "a", op, "b">> : op \in BinaryOperators}

ParenthesizedTexts ==
  {<<"(", "a", op1, "b", ")", op2, "c">> :
     op1 \in BinaryOperators, op2 \in BinaryOperators}
    \cup {<<"a", op1, "(", "b", op2, "c", ")">> :
            op1 \in BinaryOperators, op2 \in BinaryOperators}
    \cup {<<"(", "c", op, "c", ")", "->", "a">> : op \in BinaryOperators}
    \cup {<<"(", "a", ")">>, <<"(", "(", "a", ")", ")">>}

\* Expressions the grammar rejects.
BrokenExpressionTexts ==
  {<<"a", "+">>, <<"a", "->", "+", "b">>, <<"(", "a">>, <<"a", ".", "b">>,
   <<"a", ".", "any", "b">>, <<"a", "b">>, <<>>}

ExpressionTexts ==
  SuffixChainTexts \cup ChainTexts \cup MixedTexts \cup ParenthesizedTexts
    \cup BrokenExpressionTexts

\* `definition user {}` and a definition doc with permission p = expression.
PermissionText(expression) ==
  <<"definition", "user", "{", "}", " ", "definition", "doc", "{",
    "relation", "a", ":", "user", "relation", "b", ":", "user", "|", "doc",
    "relation", "c", ":", "doc", "permission", "p", "=">>
    \o expression \o <<"}">>

\* An optional comment in front of a declaration.
Comments == {<<>>, <<"/** d */">>}

UserText == <<"definition", "user", "{", "}">>

CaveatText == <<"caveat", "only", "(", "x", "int", ")", "{", "x", "==", "1", "}">>

DocTexts ==
  {<<"definition", "doc", "{">> \o c1 \o <<"relation", "a", ":">> \o type
     \o c2 \o <<"permission", "p", "=", "a", "}">> :
     c1 \in Comments, c2 \in Comments,
     type \in {<<"user">>, <<"user", ":", "*">>}}

\* Top-level declarations, each with or without a doc comment in front.
DeclarationTexts ==
  {c \o d : c \in Comments, d \in {UserText, CaveatText} \cup DocTexts}

SchemaTexts ==
  {Flatten(ds) : ds \in SeqsFromTo(DeclarationTexts, 0, MaxDefinitions)}

\* Texts the lexer or the grammar rejects, and texts with skipped stretches.
BrokenSchemaTexts ==
  UNION {{d \o <<"@">>, <<"@">> \o d, d \o <<"}">>, d \o <<"/** e */">>,
          SubSeq(d, 1, Len(d) - 1), <<"/* c */">> \o d \o <<"// c">>,
          <<"/** d */", "/** e */">> \o d} :
           d \in DeclarationTexts}
    \cup {<<"definition", "doc", "{", "relation", "a", ":", "doc", "#", "a",
            "permission", "p", "=", "a", "->", "a", "}">>,
          <<"definition", "doc", "{", "relation", "a", ":", "user", ":", "a",
            "}">>,
          <<"caveat", "only", "(", ")", "{", "x", "==", "1", "}">>,
          <<"caveat", "only", "(", "x", "int", ",", "y", "int", ")", "{",
            "y", "==", "1", "}">>}

Texts ==
  {PermissionText(e) : e \in ExpressionTexts} \cup SchemaTexts
    \cup BrokenSchemaTexts

(***************************************************************************)
(* SemanticAnalyzer.analyze as a state machine, one step per phase.        *)
(***************************************************************************)
VARIABLES ast, symbolTable, errors, warnings, graph, result, pc

\* parseSpiceDBSchema: its argument, its locals lexingResult and cst,
\* parserInstance.errors, and the ParseResult it returns (none yet: <<>>).
VARIABLES text, lexingResult, parserErrors, cst, parseResult

parserVars == <<text, lexingResult, parserErrors, cst, parseResult>>

\* The SemanticAnalyzer instance across calls.  Arrays are objects: errorsRef
\* and warningsRef are the identities of the arrays this.errors and
\* this.warnings point to (their contents are errors and warnings),
\* allocated counts the arrays created so far, detached holds the contents of
\* the arrays the fields no longer point to, and calls records, per finished
\* call, its argument, what it returned (<<>> when it threw) and the
\* identities of the arrays its result refers to.
VARIABLES errorsRef, warningsRef, allocated, detached, calls

instanceVars == <<errorsRef, warningsRef, allocated, detached, calls>>

\* The builder: the WriteOperation objects created so far (an object's
\* identity is its index), Transaction.operations as the identities it
\* holds, the requests the client received, and what execute returned.
VARIABLES writeOperations, operations, requests, outcome

builderVars == <<writeOperations, operations, requests, outcome>>

vars ==
  <<ast, symbolTable, errors, warnings, graph, result, pc, parserVars,
    instanceVars, builderVars>>

\* new Transaction(): operations = []; no WriteOperation exists yet.
InitBuilder ==
  /\ writeOperations = <<>>
  /\ operations = <<>>
  /\ requests = <<>>
  /\ outcome = <<>>

\* private errors: SemanticError[] = [] and private warnings = []
InitInstance ==
  /\ errorsRef = 1
  /\ warningsRef = 2
  /\ allocated = 2
  /\ detached = EmptyMap
  /\ calls = <<>>

Init ==
  /\ \E ps \in PermissionLists, rs \in RelationLists, layout \in Layouts :
       ast = Schema(layout, rs, ps)
  /\ symbolTable = EmptyMap
  /\ errors = <<>>
  /\ warnings = <<>>
  /\ graph = EmptyGraph
  /\ result = <<>>
  /\ pc = "analyze"
  /\ text = <<>>
  /\ lexingResult = <<>>
  /\ parserErrors = <<>>
  /\ cst = <<>>
  /\ parseResult = <<>>
  /\ InitInstance
  /\ InitBuilder

\* analyze, up to Phase 1: reset the fields and build the symbol table.
BuildSymbolTable ==
  /\ pc = "analyze"
  /\ LET built == buildSymbolTable(ast)
     IN  /\ symbolTable' = built.symbols
         /\ errors' = built.errors
  /\ warnings' = <<>>
  /\ errorsRef' = newArray(errorsRef, allocated)
  /\ warningsRef' = newArray(warningsRef, allocated + 1)
  /\ allocated' = allocated + 2
  /\ detached' =
       [r \in (DOMAIN detached \cup {errorsRef, warningsRef})
                 \ {errorsRef', warningsRef'} |->
          IF r = errorsRef THEN errors
          ELSE IF r = warningsRef THEN warnings
          ELSE detached[r]]
  /\ pc' = "validateDefinitions"
  /\ UNCHANGED <<ast, graph, result, parserVars, calls, builderVars>>

ValidateDefinitions ==
  /\ pc = "validateDefinitions"
  /\ LET v == validateDefinitions(symbolTable, ast,
                [errors |-> errors, warnings |-> warnings])
     IN  /\ errors' = v.errors
         /\ warnings' = v.warnings
  /\ pc' = "checkForCycles"
  /\ UNCHANGED <<ast, symbolTable, graph, result, parserVars,
                 instanceVars, builderVars>>

CheckForCycles ==
  /\ pc = "checkForCycles"
  /\ LET built == buildDependencyGraph(symbolTable, ast)
     IN  /\ ~built.thrown
         /\ graph' = built.graph
         /\ errors' = cycleErrors(errors, findCycles(built.graph))
  /\ pc' = "validateExpressions"
  /\ UNCHANGED <<ast, symbolTable, warnings, result, parserVars,
                 instanceVars, builderVars>>

\* Type inference raised while the dependency graph was being built.
CheckForCyclesThrows ==
  /\ pc = "checkForCycles"
  /\ buildDependencyGraph(symbolTable, ast).thrown
  /\ pc' = "thrown"
  /\ UNCHANGED <<ast, symbolTable, errors, warnings, graph, result, parserVars,
               instanceVars, builderVars>>

\* The left sides inferred here were inferred by checkForCycles already, so
\* an exception of type inference never reaches this phase.
ValidateExpressions ==
  /\ pc = "validateExpressions"
  /\ LET v == validateExpressions(symbolTable, ast, errors)
     IN  /\ ~v.thrown
         /\ errors' = v.errors
  /\ pc' = "performAdditionalChecks"
  /\ UNCHANGED <<ast, symbolTable, warnings, graph, result, parserVars,
                 instanceVars, builderVars>>

PerformAdditionalChecks ==
  /\ pc = "performAdditionalChecks"
  /\ warnings' = performAdditionalChecks(ast, warnings)
  /\ pc' = "augmentAst"
  /\ UNCHANGED <<ast, symbolTable, errors, graph, result, parserVars,
                 instanceVars, builderVars>>

\* analyze from `const isValid` to the return.
AugmentAndReturn ==
  /\ pc = "augmentAst"
  /\ LET isValid == Len(errors) = 0
         isFatalForUsage ==
           \E i \in 1..Len(errors) : errors[i].code \in fatalForUsageErrorCodes
         augmented == augmentAst(symbolTable, ast, errors)
     IN  /\ errors' = augmented.errors
         /\ result' = <<[augmentedAst |-> IF isFatalForUsage THEN <<>>
                                         ELSE augmented.augmentedAst,
                         symbolTable |-> symbolTable,
                         errors |-> augmented.errors,
                         warnings |-> warnings,
                         isValid |-> isValid]>>
  /\ pc' = "returned"
  /\ UNCHANGED <<ast, symbolTable, warnings, graph, parserVars,
                 instanceVars, builderVars>>

Next ==
  \/ BuildSymbolTable
  \/ ValidateDefinitions
  \/ CheckForCycles
  \/ CheckForCyclesThrows
  \/ ValidateExpressions
  \/ PerformAdditionalChecks
  \/ AugmentAndReturn

Spec == Init /\ [][Next]_vars

(***************************************************************************)
(* parseSpiceDBSchema as a state machine, followed by analyzeSpiceDbSchema *)
(* on the AST it returned.                                                 *)
(***************************************************************************)
ParseInit ==
  /\ text \in Texts
  /\ lexingResult = <<>>
  /\ parserErrors = <<>>
  /\ cst = <<>>
  /\ parseResult = <<>>
  /\ ast = [definitions |-> <<>>]
  /\ symbolTable = EmptyMap
  /\ errors = <<>>
  /\ warnings = <<>>
  /\ graph = EmptyGraph
  /\ result = <<>>
  /\ pc = "tokenize"
  /\ InitInstance
  /\ InitBuilder

analyzerVars ==
  <<ast, symbolTable, errors, warnings, graph, result, instanceVars>>

Tokenize ==
  /\ pc = "tokenize"
  /\ lexingResult' = tokenize(text)
  /\ pc' = "tokenized"
  /\ UNCHANGED <<text, parserErrors, cst, parseResult, analyzerVars, builderVars>>

\* if (lexingResult.errors.length > 0) return { errors: ... }
ReturnLexingErrors ==
  /\ pc = "tokenized"
  /\ Len(lexingResult.errors) > 0
  /\ parseResult' =
       <<[ast |-> <<>>,
          errors |-> [i \in 1..Len(lexingResult.errors) |->
                        [message |-> lexingResult.errors[i].message,
                         line |-> lexingResult.errors[i].line,
                         column |-> lexingResult.errors[i].column]]]>>
  /\ pc' = "parsed"
  /\ UNCHANGED <<text, lexingResult, parserErrors, cst, analyzerVars, builderVars>>

\* parserInstance.input = lexingResult.tokens; cst = parserInstance.schema()
ParseSchema ==
  /\ pc = "tokenized"
  /\ Len(lexingResult.errors) = 0
  /\ LET invoked == invokeSchema(lexingResult.tokens)
     IN  /\ cst' = invoked.cst
         /\ parserErrors' = invoked.errors
  /\ pc' = "schemaParsed"
  /\ UNCHANGED <<text, lexingResult, parseResult, analyzerVars, builderVars>>

\* if (parserInstance.errors.length > 0) return { errors: ... }
ReturnParserErrors ==
  /\ pc = "schemaParsed"
  /\ Len(parserErrors) > 0
  /\ parseResult' =
       <<[ast |-> <<>>,
          errors |-> [i \in 1..Len(parserErrors) |->
                        [message |-> parserErrors[i].message,
                         line |-> 1,
                         column |-> parserErrors[i].token]]]>>
  /\ pc' = "parsed"
  /\ UNCHANGED <<text, lexingResult, parserErrors, cst, analyzerVars, builderVars>>

\* ast = visitor.visit(cst); return { ast, errors: [] }
VisitAndReturn ==
  /\ pc = "schemaParsed"
  /\ Len(parserErrors) = 0
  /\ parseResult' = <<[ast |-> <<SpiceDBVisitor_schema(cst[1])>>,
                       errors |-> <<>>]>>
  /\ pc' = "parsed"
  /\ UNCHANGED <<text, lexingResult, parserErrors, cst, analyzerVars, builderVars>>

\* analyzeSpiceDbSchema(ast) on the AST of the ParseResult.
AnalyzeParsed ==
  /\ pc = "parsed"
  /\ parseResult[1].ast # <<>>
  /\ ast' = parseResult[1].ast[1]
  /\ pc' = "analyze"
  /\ UNCHANGED <<symbolTable, errors, warnings, graph, result, parserVars,
                 instanceVars, builderVars>>

ParseNext ==
  \/ Tokenize
  \/ ReturnLexingErrors
  \/ ParseSchema
  \/ ReturnParserErrors
  \/ VisitAndReturn
  \/ AnalyzeParsed
  \/ BuildSymbolTable
  \/ ValidateDefinitions
  \/ CheckForCycles
  \/ CheckForCyclesThrows
  \/ ValidateExpressions
  \/ PerformAdditionalChecks
  \/ AugmentAndReturn

ParseSpec == ParseInit /\ [][ParseNext]_vars

(***************************************************************************)
(* One SemanticAnalyzer instance whose analyze is called repeatedly.       *)
(***************************************************************************)
\* Calls of analyze on the one instance.
MaxCalls == 3

\* A valid schema, one with warnings only, one per kind of error, and one
\* on which type inference overflows the stack.
ReuseSchemas ==
  {Schema(<<"user">>, <<>>, <<>>),
   Schema(<<"doc">>, <<RelationDeclaration("a", <<UserWildcard>>)>>,
          <<PermissionDeclaration("p", A)>>),
   Schema(<<"doc">>, <<>>, <<PermissionDeclaration("p", A)>>),
   Schema(<<"doc">>, <<RelationDeclaration("a", <<User>>)>>,
          <<PermissionDeclaration("p", A)>>),
   Schema(<<"user", "doc">>,
          <<RelationDeclaration("a", <<User>>),
            RelationDeclaration("a", <<Doc>>)>>,
          <<PermissionDeclaration("p", IdentifierExpression("q")),
            PermissionDeclaration("q", P)>>),
   Schema(<<"doc">>, <<RelationDeclaration("a", <<DocA>>)>>,
          <<PermissionDeclaration("p", ArrowExpression("arrow", A, "a"))>>)}

ReuseInit ==
  /\ ast \in ReuseSchemas
  /\ symbolTable = EmptyMap
  /\ errors = <<>>
  /\ warnings = <<>>
  /\ graph = EmptyGraph
  /\ result = <<>>
  /\ pc = "analyze"
  /\ text = <<>>
  /\ lexingResult = <<>>
  /\ parserErrors = <<>>
  /\ cst = <<>>
  /\ parseResult = <<>>
  /\ InitInstance
  /\ InitBuilder

\* The caller keeps what the call returned and calls analyze again with
\* another AST; the fields stay as the finished call left them.
AnalyzeAgain ==
  /\ pc \in {"returned", "thrown"}
  /\ Len(calls) + 1 < MaxCalls
  /\ calls' = Append(calls, [ast |-> ast, result |-> result,
                             errorsRef |-> errorsRef,
                             warningsRef |-> warningsRef])
  /\ ast' \in ReuseSchemas
  /\ result' = <<>>
  /\ pc' = "analyze"
  /\ UNCHANGED <<symbolTable, errors, warnings, graph, parserVars, errorsRef,
                 warningsRef, allocated, detached, builderVars>>

ReuseNext ==
  \/ BuildSymbolTable
  \/ ValidateDefinitions
  \/ CheckForCycles
  \/ CheckForCyclesThrows
  \/ ValidateExpressions
  \/ PerformAdditionalChecks
  \/ AugmentAndReturn
  \/ AnalyzeAgain

ReuseSpec == ReuseInit /\ [][ReuseNext]_vars

(***************************************************************************)
(* The permissions builder driven by a caller: WriteOperations are created *)
(* and configured, added to one Transaction, and an operation or the       *)
(* Transaction is executed against the client.                             *)
(***************************************************************************)
\* WriteOperation objects the caller creates.
MaxOperations == 2

\* Calls of Transaction.add.
MaxAdded == 2

RefAlice == <<"user", ":", "alice">>
RefMember == <<"group", ":", "eng#member">>
RefDoc1 == <<"document", ":", "doc1">>
RefNested == <<"folder", ":", "f1", ":", "x">>
RefNoId == <<"alice">>

\* (operation, relation) pairs handed to grant() and revoke().
Grants == {<<"grant", "viewer">>, <<"revoke", "editor">>}

SubjectArguments ==
  {OneReference(RefAlice), ReferenceArray(<<RefAlice, RefMember>>),
   OneReference(RefNoId)}

ResourceArguments ==
  {OneReference(RefDoc1), ReferenceArray(<<RefDoc1, RefNested>>)}

\* The client's WriteRelationshipsResponse.
Responses ==
  {[writtenAt |-> <<>>], [writtenAt |-> <<[token |-> "test_token"]>>]}

BuilderInit ==
  /\ ast = [definitions |-> <<>>]
  /\ symbolTable = EmptyMap
  /\ errors = <<>>
  /\ warnings = <<>>
  /\ graph = EmptyGraph
  /\ result = <<>>
  /\ pc = "build"
  /\ text = <<>>
  /\ lexingResult = <<>>
  /\ parserErrors = <<>>
  /\ cst = <<>>
  /\ parseResult = <<>>
  /\ InitInstance
  /\ InitBuilder

notBuilderVars ==
  <<ast, symbolTable, errors, warnings, graph, result, parserVars,
    instanceVars>>

\* Operations.grant(relation) / Operations.revoke(relation)
CreateWriteOperation ==
  /\ pc = "build"
  /\ Len(writeOperations) < MaxOperations
  /\ \E grant \in Grants :
       writeOperations' =
         Append(writeOperations, WriteOperation(grant[1], grant[2]))
  /\ UNCHANGED <<pc, operations, requests, outcome, notBuilderVars>>

\* subject(ref) on the operation created last.
Subject ==
  /\ pc = "build"
  /\ Len(writeOperations) > 0
  /\ \E ref \in SubjectArguments :
       writeOperations' =
         [writeOperations EXCEPT
            ![Len(writeOperations)] = WriteOperation_subject(@, ref)]
  /\ UNCHANGED <<pc, operations, requests, outcome, notBuilderVars>>

\* resource(ref) on the operation created last.
Resource ==
  /\ pc = "build"
  /\ Len(writeOperations) > 0
  /\ \E ref \in ResourceArguments :
       writeOperations' =
         [writeOperations EXCEPT
            ![Len(writeOperations)] = WriteOperation_resource(@, ref)]
  /\ UNCHANGED <<pc, operations, requests, outcome, notBuilderVars>>

\* Transaction.add(operation) with the operation created last.
Add ==
  /\ pc = "build"
  /\ Len(writeOperations) > 0
  /\ Len(operations) < MaxAdded
  /\ operations' = Append(operations, Len(writeOperations))
  /\ UNCHANGED <<pc, writeOperations, requests, outcome, notBuilderVars>>

\* WriteOperation.execute(client) on the operation created last.
ExecuteWriteOperation ==
  /\ pc = "build"
  /\ Len(writeOperations) > 0
  /\ LET built == WriteOperation_toRelationshipUpdates(
                    writeOperations[Len(writeOperations)])
     IN  IF built.thrown
         THEN /\ outcome' = <<[thrown |-> TRUE]>>
              /\ UNCHANGED requests
         ELSE /\ requests' =
                   Append(requests, WriteRelationshipsRequest(built.updates))
              /\ \E response \in Responses :
                   outcome' = <<[thrown |-> FALSE,
                                 token |-> writtenAtToken(response)]>>
  /\ pc' = "executedOperation"
  /\ UNCHANGED <<writeOperations, operations, notBuilderVars>>

\* Transaction.execute(client)
ExecuteTransaction ==
  /\ pc = "build"
  /\ LET built == Transaction_toRelationshipUpdates(
                    [i \in 1..Len(operations) |->
                       writeOperations[operations[i]]])
     IN  IF built.thrown
         THEN /\ outcome' = <<[thrown |-> TRUE]>>
              /\ UNCHANGED requests
         ELSE /\ requests' =
                   Append(requests, WriteRelationshipsRequest(built.updates))
              /\ \E response \in Responses :
                   outcome' = <<[thrown |-> FALSE,
                                 token |-> writtenAtToken(response),
                                 succeeded |-> TRUE,
                                 operationCount |-> Len(built.updates)]>>
  /\ pc' = "executedTransaction"
  /\ UNCHANGED <<writeOperations, operations, notBuilderVars>>

BuilderNext ==
  \/ CreateWriteOperation
  \/ Subject
  \/ Resource
  \/ Add
  \/ ExecuteWriteOperation
  \/ ExecuteTransaction

BuilderSpec == BuilderInit /\ [][BuilderNext]_vars

(***************************************************************************)
(* Properties                                                              *)
(***************************************************************************)
Returned == pc = "returned"

ErrorCodes(errs) == {errs[i].code : i \in 1..Len(errs)}

CountCode(errs, code) ==
  Cardinality({i \in 1..Len(errs) : errs[i].code = code})

ObjectDefinitions(tree) ==
  {d \in Range(tree.definitions) : d.type = "definition"}

RECURSIVE SubExpressions(_)
SubExpressions(e) ==
  {e} \cup
    CASE e.type \in {"union", "intersection"} ->
           UNION {SubExpressions(e.operands[i]) : i \in 1..Len(e.operands)}
      [] e.type = "exclusion" ->
           SubExpressions(e.left) \cup SubExpressions(e.right)
      [] e.type \in ArrowKinds -> SubExpressions(e.left)
      [] OTHER -> {}

\* Every (definition name, expression) pair occurring in the schema.
ExpressionSites(tree) ==
  UNION {UNION {{<<d.name, e>> : e \in SubExpressions(perm.expression)} :
                  perm \in Range(d.permissions)} :
           d \in ObjectDefinitions(tree)}

\* The call stacks a nested call can be made with.
CallStacks == SUBSET {"doc#p", "doc#q"}

\* The symbol table is built and the engine is wired to it.
EngineReady == pc = "validateDefinitions"

\* C1: the result of analyze has isValid = true exactly when its errors list
\* is empty, also when augmentation failed.
C1_IsValidIffNoErrors ==
  Returned => (result[1].isValid <=> Len(result[1].errors) = 0)

UsageFatalCodes ==
  {"UNDEFINED_TYPE", "UNDEFINED_RELATION", "DUPLICATE_DEFINITION",
   "DUPLICATE_MEMBER_NAME", "CIRCULAR_DEPENDENCY", "UNDEFINED_IDENTIFIER",
   "UNDEFINED_ARROW_TARGET"}

\* C2: when the returned errors contain any of the seven usage-fatal codes,
\* augmentedAst is absent and the symbol table (holding every definition
\* name of the schema) is returned.
C2_FatalErrorWithholdsAugmentedAst ==
  Returned =>
    (ErrorCodes(result[1].errors) \cap UsageFatalCodes # {} =>
       /\ result[1].augmentedAst = <<>>
       /\ result[1].symbolTable = symbolTable
       /\ DOMAIN result[1].symbolTable
            = {ast.definitions[i].name : i \in 1..Len(ast.definitions)})

C2_Witness ==
  /\ Returned
  /\ Len(result[1].errors) = 1
  /\ result[1].errors[1].code = "UNDEFINED_ARROW_TARGET"
  /\ result[1].augmentedAst = <<>>

\* C3: whenever analyze returns isValid = true, augmentedAst is present.
C3_ValidImpliesAugmentedAst ==
  Returned => (result[1].isValid => result[1].augmentedAst # <<>>)

HasEdge(g, from, to) == from \in DOMAIN g.adj /\ to \in Range(g.adj[from])

SelfEdges(g) == {n \in DOMAIN g.adj : HasEdge(g, n, n)}

\* Nodes reachable from n by one or more edges, none of them a self-edge.
RECURSIVE ReachFrom(_, _)
ReachFrom(g, seen) ==
  LET more == {m \in DOMAIN g.adj :
                 \E n \in seen : n # m /\ HasEdge(g, n, m)}
  IN  IF more \subseteq seen THEN seen ELSE ReachFrom(g, seen \cup more)

ProperSuccessors(g, n) == {m \in DOMAIN g.adj : m # n /\ HasEdge(g, n, m)}

OnProperCycle(g, n) ==
  ProperSuccessors(g, n) # {} /\ n \in ReachFrom(g, ProperSuccessors(g, n))

CyclesChecked ==
  pc \in {"validateExpressions", "performAdditionalChecks", "augmentAst",
          "returned"}

\* C4: when the only cycles of the dependency graph are direct self-edges
\* D#P -> D#P, no CIRCULAR_DEPENDENCY error is produced.
C4_SelfEdgeIsNoCircularDependency ==
  CyclesChecked =>
    ((SelfEdges(graph) # {} /\ \A n \in DOMAIN graph.adj : ~OnProperCycle(graph, n))
       => "CIRCULAR_DEPENDENCY" \notin ErrorCodes(errors))

\* `permission p = a + a->p` with `relation a: doc` inside doc.
C4_Witness ==
  /\ Returned
  /\ \E d \in ObjectDefinitions(ast) :
       /\ d.name = "doc"
       /\ d.relations = <<RelationDeclaration("a", <<Doc>>)>>
       /\ d.permissions =
            <<PermissionDeclaration("p",
                UnionExpression(<<A, ArrowExpression("arrow", A, "p")>>))>>
  /\ HasEdge(graph, "doc#p", "doc#p")
  /\ "CIRCULAR_DEPENDENCY" \notin ErrorCodes(result[1].errors)

\* Some definition declares exactly two permissions, each the other's name,
\* and no definition declares other permissions.
MutualPermissions(tree) ==
  \E d \in ObjectDefinitions(tree) :
    /\ Len(d.permissions) = 2
    /\ d.permissions[1].name # d.permissions[2].name
    /\ d.permissions[1].expression
         = IdentifierExpression(d.permissions[2].name)
    /\ d.permissions[2].expression
         = IdentifierExpression(d.permissions[1].name)
    /\ \A o \in ObjectDefinitions(tree) :
         o.permissions = <<>> \/ o.permissions = d.permissions

\* C5: two permissions that are each other's expression, in either
\* declaration order, give exactly one CIRCULAR_DEPENDENCY error, isValid
\* false and no augmentedAst.
C5_MutualPermissionsOneCircularDependency ==
  (Returned /\ MutualPermissions(ast)) =>
    /\ CountCode(result[1].errors, "CIRCULAR_DEPENDENCY") = 1
    /\ ~result[1].isValid
    /\ result[1].augmentedAst = <<>>

\* Declared q first: `permission q = p  permission p = q`.
C5_Witness ==
  /\ Returned
  /\ MutualPermissions(ast)
  /\ \E d \in ObjectDefinitions(ast) :
       Len(d.permissions) = 2 /\ d.permissions[1].name = "q"
  /\ CountCode(result[1].errors, "CIRCULAR_DEPENDENCY") = 1

\* typeName + (":*" if wildcard) + ("#" + relation if present)
CompositeKey(t) ==
  t.typeName \o (IF t.wildcard THEN ":*" ELSE "")
             \o (IF t.relation = Undefined THEN "" ELSE "#" \o t.relation)

NoDuplicateKeys(types) ==
  \A i, j \in 1..Len(types) :
    i # j => CompositeKey(types[i]) # CompositeKey(types[j])

\* C6: a non-null list returned by inferExpressionType has no two entries
\* with the same composite key.
C6_InferredTypesHaveNoDuplicateKeys ==
  EngineReady =>
    \A site \in ExpressionSites(ast), cs \in CallStacks :
      LET r == inferExpressionType(symbolTable, site[1], site[2], cs, 1)
      IN  r.kind = "list" => NoDuplicateKeys(r.types)

\* `relation a: user | user` and `permission p = a + a` infer [user].
C6_Witness ==
  /\ EngineReady
  /\ getRelation(symbolTable, "doc", "a")
       = <<RelationDeclaration("a", <<User, User>>)>>
  /\ <<"doc", UnionExpression(<<A, A>>)>> \in ExpressionSites(ast)
  /\ infer(symbolTable, "doc", UnionExpression(<<A, A>>)) = TypeList(<<User>>)

TupleKey(t) == <<t.typeName, t.wildcard, t.relation>>

OperandResults(symbols, defName, operands, cs) ==
  [i \in 1..Len(operands) |->
     inferExpressionType(symbols, defName, operands[i], cs, 2)]

\* The types of the first operand whose key occurs in every operand's list.
CommonTypes(ops) ==
  SelectSeq(ops[1].types,
            LAMBDA t : \A i \in 1..Len(ops) :
                         \E k \in 1..Len(ops[i].types) :
                           TupleKey(ops[i].types[k]) = TupleKey(t))

\* C7: an intersection infers to null when some operand infers to null, and
\* otherwise to the types of the first operand, in its order, whose key
\* occurs in every operand's list.
C7_IntersectionInference ==
  EngineReady =>
    \A site \in ExpressionSites(ast), cs \in CallStacks :
      site[2].type = "intersection" =>
        LET r == inferExpressionType(symbolTable, site[1], site[2], cs, 1)
            ops == OperandResults(symbolTable, site[1], site[2].operands, cs)
        IN  r.kind # "throw" =>
              /\ (\E i \in 1..Len(ops) : ops[i].kind = "null") => r = Null
              /\ (\A i \in 1..Len(ops) : ops[i].kind = "list")
                   => r = TypeList(CommonTypes(ops))

\* `a & b` with a: user | doc#b and b: doc | user:* infers [doc, user:*].
C7_Witness ==
  /\ EngineReady
  /\ <<"doc", IntersectionExpression(<<A, B>>)>> \in ExpressionSites(ast)
  /\ infer(symbolTable, "doc", A) = TypeList(<<User, Doc, UserWildcard>>)
  /\ infer(symbolTable, "doc", B) = TypeList(<<Doc, UserWildcard>>)
  /\ infer(symbolTable, "doc", IntersectionExpression(<<A, B>>))
       = TypeList(<<Doc, UserWildcard>>)

\* The first occurrence of every key, in order.
RECURSIVE FirstOccurrences(_)
FirstOccurrences(types) ==
  IF types = <<>> THEN <<>>
  ELSE LET front == FirstOccurrences(SubSeq(types, 1, Len(types) - 1))
           last == types[Len(types)]
       IN  IF \E i \in 1..Len(front) : TupleKey(front[i]) = TupleKey(last)
           THEN front ELSE Append(front, last)

RECURSIVE ConcatResolved(_)
ConcatResolved(ops) ==
  IF ops = <<>> THEN <<>>
  ELSE (IF ops[1].kind = "list" THEN ops[1].types ELSE <<>>)
         \o ConcatResolved(Tail(ops))

\* C8: a union infers to the deduplicated concatenation, in operand order,
\* of the lists of the operands that resolve; operands that infer to null
\* are skipped, and when all fail the result is the empty list.
C8_UnionInference ==
  EngineReady =>
    \A site \in ExpressionSites(ast), cs \in CallStacks :
      site[2].type = "union" =>
        LET r == inferExpressionType(symbolTable, site[1], site[2], cs, 1)
            ops == OperandResults(symbolTable, site[1], site[2].operands, cs)
        IN  r.kind # "throw" =>
              r = TypeList(FirstOccurrences(ConcatResolved(ops)))

\* `q + a` where q is undeclared and a resolves: the union is a's list.
C8_Witness ==
  /\ EngineReady
  /\ <<"doc", UnionExpression(<<IdentifierExpression("q"), A>>)>>
       \in ExpressionSites(ast)
  /\ infer(symbolTable, "doc", IdentifierExpression("q")) = Null
  /\ infer(symbolTable, "doc", A) = TypeList(<<User, Doc>>)
  /\ infer(symbolTable, "doc",
           UnionExpression(<<IdentifierExpression("q"), A>>))
       = TypeList(<<User, Doc>>)

\* C9: an exclusion infers to exactly what its left side infers to, whatever
\* its right side is.
C9_ExclusionInfersLeft ==
  EngineReady =>
    \A site \in ExpressionSites(ast), cs \in CallStacks :
      site[2].type = "exclusion" =>
        inferExpressionType(symbolTable, site[1], site[2], cs, 1)
          = inferExpressionType(symbolTable, site[1], site[2].left, cs, 1)

\* `a - q` where q is undeclared and a resolves to [user].
C9_Witness ==
  /\ EngineReady
  /\ <<"doc", ExclusionExpression(A, IdentifierExpression("q"))>>
       \in ExpressionSites(ast)
  /\ ~hasRelationOrPermission(symbolTable, "doc", "q")
  /\ infer(symbolTable, "doc", ExclusionExpression(A, IdentifierExpression("q")))
       = TypeList(<<User>>)

\* The left side of an arrow resolves to at least one type and none of the
\* resolved types has the target.
TargetOnNoResolvedType(symbols, defName, expr) ==
  LET leftTypes == infer(symbols, defName, expr.left)
  IN  /\ leftTypes.kind = "list"
      /\ Len(leftTypes.types) >= 1
      /\ \A i \in 1..Len(leftTypes.types) :
           ~hasRelationOrPermission(symbols, leftTypes.types[i].typeName,
                                    expr.target)

\* C10: a permission whose arrow target is on none of the resolved left-hand
\* types gives UNDEFINED_ARROW_TARGET, isValid = false, and inferred subject
\* types null.
C10_MissingArrowTargetInfersNull ==
  Returned =>
    \A d \in ObjectDefinitions(ast) :
      \A perm \in Range(d.permissions) :
        (perm.expression.type \in ArrowKinds
           /\ TargetOnNoResolvedType(result[1].symbolTable, d.name,
                                     perm.expression))
          => /\ "UNDEFINED_ARROW_TARGET" \in ErrorCodes(result[1].errors)
             /\ ~result[1].isValid
             /\ infer(result[1].symbolTable, d.name, perm.expression) = Null

\* What the declared types contribute, in declaration order: a type without
\* sub-relation itself, a type T#r the resolved types of member r of T, or
\* nothing when r does not resolve.
RECURSIVE SplicedTypes(_, _, _)
SplicedTypes(symbols, types, cs) ==
  IF types = <<>> THEN <<>>
  ELSE LET t == Head(types)
           sub == inferSubjectRelationType(symbols, t.typeName, t.relation,
                                           cs, 2)
       IN  (IF t.relation = Undefined THEN <<t>>
            ELSE IF sub.kind = "list" THEN sub.types ELSE <<>>)
             \o SplicedTypes(symbols, Tail(types), cs)

\* C11: an identifier that names a relation infers to the deduplicated list,
\* in declaration order, of its declared types, each type without
\* sub-relation as declared (wildcard flag kept) and each T#r replaced by the
\* resolved types of member r of T; an r that does not resolve adds nothing.
C11_RelationIdentifierSplicesSubRelations ==
  EngineReady =>
    \A site \in ExpressionSites(ast), cs \in CallStacks :
      (site[2].type = "identifier"
         /\ getRelation(symbolTable, site[1], site[2].name) # <<>>) =>
        LET r == inferExpressionType(symbolTable, site[1], site[2], cs, 1)
            rel == getRelation(symbolTable, site[1], site[2].name)[1]
        IN  r.kind # "throw" =>
              /\ r = TypeList(FirstOccurrences(
                                SplicedTypes(symbolTable, rel.types, cs)))
              /\ (\A i \in 1..Len(rel.types) :
                    rel.types[i].relation = Undefined)
                   => r = TypeList(FirstOccurrences(rel.types))

\* `relation a: doc#b  relation b: user  permission p = a`: a infers [user].
C11_Witness ==
  /\ EngineReady
  /\ <<"doc", A>> \in ExpressionSites(ast)
  /\ getRelation(symbolTable, "doc", "a")
       = <<RelationDeclaration("a", <<DocB>>)>>
  /\ getRelation(symbolTable, "doc", "b")
       = <<RelationDeclaration("b", <<User>>)>>
  /\ infer(symbolTable, "doc", A) = TypeList(<<User>>)

\* C12: inferExpressionType returns (a list or null) for every expression of
\* every schema, sub-relation references that form a cycle among relations
\* included, and analyze therefore returns.
C12_InferenceTerminates ==
  /\ pc # "thrown"
  /\ EngineReady =>
       \A site \in ExpressionSites(ast) :
         infer(symbolTable, site[1], site[2]).kind # "throw"

\* parseSpiceDBSchema has returned.
ParseReturned == parseResult # <<>>

\* The stretches of the text that no token pattern matches.
UnmatchedLexemes(t) == {i \in 1..Len(t) : tokenTypeOf(t[i]) = ""}

\* C13: parseSpiceDBSchema returns an AST exactly when the error list it
\* returns is empty: with a lexical error the grammar is not run and only the
\* lexer's errors are returned, with a grammar error only errors and no
\* (partial) AST are returned, and otherwise the AST with an empty list.
C13_AstExactlyWhenNoErrors ==
  ParseReturned =>
    LET r == parseResult[1] IN
    /\ r.ast # <<>> <=> r.errors = <<>>
    /\ UnmatchedLexemes(text) # {} <=> lexingResult.errors # <<>>
    /\ UnmatchedLexemes(text) # {} =>
         /\ r.ast = <<>>
         /\ Len(r.errors) = Cardinality(UnmatchedLexemes(text))
         /\ cst = <<>> /\ parserErrors = <<>>
    /\ parserErrors # <<>> =>
         r.ast = <<>> /\ Len(r.errors) = Len(parserErrors)
    /\ (UnmatchedLexemes(text) = {} /\ parserErrors = <<>>) =>
         r.ast # <<>> /\ r.errors = <<>>

\* `definition user { } }`: the grammar built a tree for the definition and
\* reports the input left over; no AST is returned.
C13_Witness ==
  /\ ParseReturned
  /\ text = UserText \o <<"}">>
  /\ cst # <<>>
  /\ parserErrors # <<>>
  /\ parseResult[1].ast = <<>>
  /\ parseResult[1].errors # <<>>

\* The AST that parseSpiceDBSchema returned.
ParsedAst == parseResult[1].ast[1]

AstReturned == ParseReturned /\ parseResult[1].ast # <<>>

\* The expression of the first permission of the last definition.
ParsedExpression ==
  ParsedAst.definitions[Len(ParsedAst.definitions)].permissions[1].expression

\* The expression that the lexemes are parsed to as a permission expression.
ExpressionOf(lexemes) ==
  SpiceDBVisitor_permissionExpression(
    SpiceDBParser_permissionExpression(tokenize(lexemes).tokens, 1).node)

\* The node of a binary operator over two operands.
OperatorNode(op, left, right) ==
  CASE op = "+" -> UnionExpression(<<left, right>>)
    [] op = "&" -> IntersectionExpression(<<left, right>>)
    [] op = "-" -> ExclusionExpression(left, right)

\* union (+) < intersection (&) < exclusion (-)
Precedence(op) == CASE op = "+" -> 1 [] op = "&" -> 2 [] op = "-" -> 3

Id(n) == IdentifierExpression(n)

\* C14: permission expressions parse with precedence union < intersection <
\* exclusion < arrow: in `a op1 b op2 c` the operator of higher precedence
\* takes its two neighbours first (`a + b & c` is union(a, intersection(b,
\* c)), `a & b - c` is intersection(a, exclusion(b, c))), a suffix `->t`
\* binds to the operand it follows (`a - c->b` is exclusion(a, arrow(c, b))),
\* and a parenthesized sub-expression is parsed as a complete expression and
\* used as one primary operand.
C14_OperatorPrecedence ==
  AstReturned =>
    \A op1 \in BinaryOperators, op2 \in BinaryOperators :
      /\ (text = PermissionText(<<"a", op1, "b", op2, "c">>)
            /\ Precedence(op1) < Precedence(op2))
           => ParsedExpression
                = OperatorNode(op1, Id("a"), OperatorNode(op2, Id("b"), Id("c")))
      /\ (text = PermissionText(<<"a", op1, "b", op2, "c">>)
            /\ Precedence(op1) > Precedence(op2))
           => ParsedExpression
                = OperatorNode(op2, OperatorNode(op1, Id("a"), Id("b")), Id("c"))
      /\ text = PermissionText(<<"a", op1, "c", "->", "b">>)
           => ParsedExpression
                = OperatorNode(op1, Id("a"),
                               ArrowExpression("arrow", Id("c"), "b"))
      /\ text = PermissionText(<<"c", "->", "a", op1, "b">>)
           => ParsedExpression
                = OperatorNode(op1, ArrowExpression("arrow", Id("c"), "a"),
                               Id("b"))
      /\ text = PermissionText(<<"(", "a", op1, "b", ")", op2, "c">>)
           => ParsedExpression
                = OperatorNode(op2, ExpressionOf(<<"a", op1, "b">>), Id("c"))
      /\ text = PermissionText(<<"a", op1, "(", "b", op2, "c", ")">>)
           => ParsedExpression
                = OperatorNode(op1, Id("a"), ExpressionOf(<<"b", op2, "c">>))
      /\ text = PermissionText(<<"(", "c", op1, "c", ")", "->", "a">>)
           => ParsedExpression
                = ArrowExpression("arrow", ExpressionOf(<<"c", op1, "c">>), "a")
      /\ text \in {PermissionText(<<"(", "a", ")">>),
                   PermissionText(<<"(", "(", "a", ")", ")">>)}
           => ParsedExpression = Id("a")

\* `permission p = a + b & c` is union(a, intersection(b, c)).
C14_Witness ==
  /\ AstReturned
  /\ text = PermissionText(<<"a", "+", "b", "&", "c">>)
  /\ ParsedExpression
       = UnionExpression(<<Id("a"), IntersectionExpression(<<Id("b"), Id("c")>>)>>)

\* Every expression node of the tree, sub-expressions included.
ExpressionNodes(tree) == {site[2] : site \in ExpressionSites(tree)}

\* The identifiers of the first n names, in order.
FirstIds(n) == [i \in 1..n |-> Id(NameAt(i))]

\* C15: in an AST returned by parseSpiceDBSchema every union and intersection
\* node has at least 2 operands; an unparenthesized chain of n >= 2 operands
\* joined by the same operator + or & is one flat node with exactly those n
\* operands in source order, a single operand has no wrapper node, and
\* analyze never reports INVALID_EXPRESSION for a parsed schema.
C15_FlatChainsOfAtLeastTwoOperands ==
  /\ AstReturned =>
       /\ \A e \in ExpressionNodes(ParsedAst) :
            e.type \in {"union", "intersection"} => Len(e.operands) >= 2
       /\ \A n \in 2..MaxOperands :
            /\ text = PermissionText(ChainText("+", n))
                 => ParsedExpression = UnionExpression(FirstIds(n))
            /\ text = PermissionText(ChainText("&", n))
                 => ParsedExpression = IntersectionExpression(FirstIds(n))
       /\ (\E op \in BinaryOperators : text = PermissionText(ChainText(op, 1)))
            => ParsedExpression = Id("a")
  /\ ParseReturned => "INVALID_EXPRESSION" \notin ErrorCodes(errors)
  /\ (ParseReturned /\ Returned)
       => "INVALID_EXPRESSION" \notin ErrorCodes(result[1].errors)

\* `permission p = a + b + c` is one union of a, b, c, and is analyzed.
C15_Witness ==
  /\ AstReturned
  /\ Returned
  /\ text = PermissionText(<<"a", "+", "b", "+", "c">>)
  /\ ParsedExpression = UnionExpression(<<Id("a"), Id("b"), Id("c")>>)
  /\ result[1].errors = <<>>

\* C16: a chain of exclusion operators is left-folded into binary nodes with
\* no operand lost: `a - b - c` is exclusion(exclusion(a, b), c).
C16_ExclusionChainLeftFolded ==
  AstReturned =>
    \A n \in 2..MaxOperands :
      text = PermissionText(ChainText("-", n))
        => ParsedExpression
             = FoldLeft(LAMBDA left, right : ExclusionExpression(left, right),
                        Id(NameAt(1)), Tail(FirstIds(n)))

\* The primary c wrapped by the suffixes in the order they are written.
LeftFoldedSuffixes(kinds) ==
  LET F[k \in 0..Len(kinds)] ==
        IF k = 0 THEN Id("c") ELSE ArrowExpression(kinds[k], F[k - 1], NameAt(k))
  IN  F[Len(kinds)]

\* C17: a chain of traversal suffixes after a primary, in any mixture of
\* `->t`, `.any(t)` and `.all(t)`, is left-folded in source order: the k-th
\* suffix written is the k-th wrapper from the inside.
C17_SuffixChainLeftFolded ==
  AstReturned =>
    \A kinds \in SeqsFromTo(ArrowKinds, 1, MaxSuffixes) :
      text = PermissionText(<<"c">> \o SuffixChainText(kinds))
        => ParsedExpression = LeftFoldedSuffixes(kinds)

\* The names declared after the given keywords, in the order of the text.
DeclaredNames(t, keywords) ==
  LET at == SelectSeq([i \in 1..Len(t) |-> i],
                      LAMBDA i : t[i] \in keywords /\ i < Len(t))
  IN  [k \in 1..Len(at) |-> t[at[k] + 1]]

NamesOf(declarations) ==
  [i \in 1..Len(declarations) |-> declarations[i].name]

\* C18: the definitions of the AST returned by parseSpiceDBSchema are the
\* top-level definitions, object types and caveats together, in the order
\* of the source text, and the augmented AST of analyze keeps that order.
C18_DefinitionsInSourceOrder ==
  AstReturned =>
    /\ NamesOf(ParsedAst.definitions)
         = DeclaredNames(text, {"definition", "caveat"})
    /\ (Returned /\ result[1].augmentedAst # <<>>)
         => NamesOf(result[1].augmentedAst[1].definitions)
              = DeclaredNames(text, {"definition", "caveat"})

\* The doc comment in front of each declaration that the given keywords
\* start, in the order of the text: <<comment>>, or <<>> when there is none.
PrecedingDocComments(t, keywords) ==
  LET at == SelectSeq([i \in 1..Len(t) |-> i], LAMBDA i : t[i] \in keywords)
  IN  [k \in 1..Len(at) |->
         IF at[k] > 1 /\ t[at[k] - 1] \in DocCommentLexemes
         THEN <<t[at[k] - 1]>> ELSE <<>>]

DocCommentsOf(declarations) ==
  [i \in 1..Len(declarations) |-> declarations[i].docComment]

DefinitionsOfType(tree, type) ==
  SelectSeq(tree.definitions, LAMBDA d : d.type = type)

\* C19: a doc comment immediately in front of a definition, caveat, relation
\* or permission declaration is that declaration's docComment, and a
\* declaration without one has docComment undefined.
C19_DocCommentAttached ==
  AstReturned =>
    LET objects == DefinitionsOfType(ParsedAst, "definition") IN
    /\ DocCommentsOf(objects) = PrecedingDocComments(text, {"definition"})
    /\ DocCommentsOf(DefinitionsOfType(ParsedAst, "caveat"))
         = PrecedingDocComments(text, {"caveat"})
    /\ DocCommentsOf(Flatten([i \in 1..Len(objects) |-> objects[i].relations]))
         = PrecedingDocComments(text, {"relation"})
    /\ DocCommentsOf(Flatten([i \in 1..Len(objects) |-> objects[i].permissions]))
         = PrecedingDocComments(text, {"permission"})

\* Some relation of the schema declares a wildcard subject type.
DeclaresWildcard(tree) ==
  \E d \in ObjectDefinitions(tree) :
    \E rel \in Range(d.relations) :
      \E i \in 1..Len(rel.types) : rel.types[i].wildcard

\* C20: warnings never affect isValid or augmentation: an analysis with
\* warnings (WILDCARD_USAGE for a wildcard subject type, UNUSED_DEFINITION)
\* and no errors has isValid = true and the augmented AST, and a permission
\* that is a relation with the single subject type T:* has the inferred
\* subject types [{typeName: T, wildcard: true}].
C20_WarningsDoNotAffectValidity ==
  Returned =>
    /\ DeclaresWildcard(ast)
         => "WILDCARD_USAGE" \in ErrorCodes(result[1].warnings)
    /\ result[1].errors = <<>> =>
         /\ result[1].isValid
         /\ result[1].augmentedAst # <<>>
         /\ \A d \in ObjectDefinitions(result[1].augmentedAst[1]) :
              \A perm \in Range(d.permissions), rel \in Range(d.relations) :
                (perm.expression = IdentifierExpression(rel.name)
                   /\ Len(rel.types) = 1 /\ rel.types[1].wildcard)
                  => perm.inferredSubjectTypes = TypeList(rel.types)

\* `definition user {}  definition doc { relation a: user:*  permission p = a }`
C20_Witness ==
  /\ Returned
  /\ ErrorCodes(result[1].warnings) = {"WILDCARD_USAGE", "UNUSED_DEFINITION"}
  /\ result[1].errors = <<>>
  /\ result[1].isValid
  /\ result[1].augmentedAst # <<>>
  /\ \E d \in ObjectDefinitions(result[1].augmentedAst[1]) :
       /\ d.relations = <<RelationDeclaration("a", <<UserWildcard>>)>>
       /\ Len(d.permissions) = 1
       /\ d.permissions[1].expression = A
       /\ d.permissions[1].inferredSubjectTypes = TypeList(<<UserWildcard>>)

\* The present contents of the array with identity r.
ArrayContents(r) ==
  IF r = errorsRef THEN errors
  ELSE IF r = warningsRef THEN warnings
  ELSE detached[r]

\* What a caller compares of two results.
Observable(res) ==
  [errors |-> res.errors, warnings |-> res.warnings,
   isValid |-> res.isValid, augmentedAst |-> res.augmentedAst]

\* C21: analyze keeps no cross-call state.  Whatever calls the instance
\* served before, a call that returns gives the errors, warnings, isValid
\* and augmentedAst a fresh analyzer gives for the same AST (and throws
\* exactly when a fresh one throws), and the error and warning arrays of
\* the results returned earlier still hold what they held on return.
C21_NoCrossCallState ==
  /\ pc = "returned" =>
       /\ analyzeSpiceDbSchema(ast) # <<>>
       /\ Observable(result[1]) = Observable(analyzeSpiceDbSchema(ast)[1])
  /\ pc = "thrown" => analyzeSpiceDbSchema(ast) = <<>>
  /\ \A i \in 1..Len(calls) :
       calls[i].result # <<>> =>
         /\ ArrayContents(calls[i].errorsRef) = calls[i].result[1].errors
         /\ ArrayContents(calls[i].warningsRef) = calls[i].result[1].warnings

\* A third call has returned without errors or warnings on an instance whose
\* first call returned errors and whose second call threw.
C21_Witness ==
  /\ pc = "returned"
  /\ Len(calls) = 2
  /\ calls[1].result # <<>>
  /\ Len(calls[1].result[1].errors) > 0
  /\ calls[2].result = <<>>
  /\ result[1].errors = <<>>
  /\ result[1].warnings = <<>>

\* The type and the id a "type:id" reference names.
TypeOf(ref) == ref[1]
IdOf(ref) == ref[3]

WellFormed(ref) == Len(ref) >= 3 /\ ref[2] = ":"

\* The update the pair (subject, resource) of an operation stands for.
UpdateFor(op, subject, resource) ==
  [relationship |->
     [resource |->
        [objectType |-> TypeOf(resource), objectId |-> IdOf(resource)],
      relation |-> op.relation,
      subject |->
        [object |->
           [objectType |-> TypeOf(subject), objectId |-> IdOf(subject)]]],
   operation |-> IF op.operation = "grant" THEN "TOUCH" ELSE "DELETE"]

Parses(op) ==
  \A ref \in Range(op.subjects) \cup Range(op.resources) : WellFormed(ref)

PairCount(op) == Len(op.subjects) * Len(op.resources)

RECURSIVE Sum(_)
Sum(counts) == IF counts = <<>> THEN 0 ELSE Head(counts) + Sum(Tail(counts))

AddedOperations == [i \in 1..Len(operations) |-> writeOperations[operations[i]]]

\* C22: a grant or revoke operation with subjects S and resources R whose
\* references parse yields |S| x |R| updates, the one at (i, j) carrying the
\* relation of the operation, the type and id of S[i] and R[j], and TOUCH
\* for grant or DELETE for revoke; execute sends them in one
\* writeRelationships request; and the operationCount a Transaction returns
\* is the number of updates of the operations added to it.
C22_OneUpdatePerSubjectResourcePair ==
  /\ \A k \in 1..Len(writeOperations) :
       LET op == writeOperations[k]
           built == WriteOperation_toRelationshipUpdates(op)
       IN  Parses(op) =>
             /\ ~built.thrown
             /\ Len(built.updates) = PairCount(op)
             /\ \A i \in 1..Len(op.subjects), j \in 1..Len(op.resources) :
                  built.updates[(i - 1) * Len(op.resources) + j]
                    = UpdateFor(op, op.subjects[i], op.resources[j])
  /\ (pc = "executedOperation"
        /\ Parses(writeOperations[Len(writeOperations)])) =>
       /\ Len(requests) = 1
       /\ requests[1].updates =
            WriteOperation_toRelationshipUpdates(
              writeOperations[Len(writeOperations)]).updates
  /\ (pc = "executedTransaction"
        /\ \A i \in 1..Len(operations) : Parses(AddedOperations[i])) =>
       /\ Len(requests) = 1
       /\ ~outcome[1].thrown
       /\ outcome[1].operationCount = Len(requests[1].updates)
       /\ outcome[1].operationCount =
            Sum([i \in 1..Len(operations) |-> PairCount(AddedOperations[i])])

\* A Transaction of a grant with two subjects and two resources and a revoke
\* with one subject and one resource was executed: five updates.
C22_Witness ==
  /\ pc = "executedTransaction"
  /\ Len(operations) = 2
  /\ AddedOperations[1].operation = "grant"
  /\ PairCount(AddedOperations[1]) = 4
  /\ AddedOperations[2].operation = "revoke"
  /\ PairCount(AddedOperations[2]) = 1
  /\ Len(requests) = 1
  /\ Len(requests[1].updates) = 5

\* The names of the relations and permissions a definition declares.
MemberNames(def) ==
  {def.relations[i].name : i \in 1..Len(def.relations)}
    \cup {def.permissions[i].name : i \in 1..Len(def.permissions)}

\* The occurrences of identifier n in expression e that are subject to the
\* check: operands, both sides of an exclusion, left sides of traversals.
RECURSIVE Occurrences(_, _)
Occurrences(e, n) ==
  CASE e.type = "identifier" -> IF e.name = n THEN 1 ELSE 0
    [] e.type \in {"union", "intersection"} ->
         Sum([i \in 1..Len(e.operands) |-> Occurrences(e.operands[i], n)])
    [] e.type = "exclusion" -> Occurrences(e.left, n) + Occurrences(e.right, n)
    [] e.type \in ArrowKinds -> Occurrences(e.left, n)

\* Occurrences of n in the permissions of the definitions named d.
OccurrencesIn(tree, d, n) ==
  Sum([i \in 1..Len(tree.definitions) |->
         IF tree.definitions[i].type = "definition"
            /\ tree.definitions[i].name = d
         THEN Sum([j \in 1..Len(tree.definitions[i].permissions) |->
                     Occurrences(
                       tree.definitions[i].permissions[j].expression, n)])
         ELSE 0])

UndefinedIdentifierErrors(errs, d, n) ==
  Cardinality({i \in 1..Len(errs) :
                 /\ errs[i].code = "UNDEFINED_IDENTIFIER"
                 /\ errs[i].message =
                      "Undefined identifier '" \o n \o "' in type '" \o d
                        \o "'"})

IdentifierNames == {"a", "b", "p", "q", "r"}

\* C23: the errors analyze returns hold one UNDEFINED_IDENTIFIER per
\* occurrence, at any depth, of an identifier that is neither a relation nor
\* a permission of its definition, none for an identifier that is one, and
\* none for the target of an arrow.
C23_UndefinedIdentifierPerOccurrence ==
  Returned =>
    \A def \in ObjectDefinitions(ast), n \in IdentifierNames :
      UndefinedIdentifierErrors(result[1].errors, def.name, n)
        = IF n \in MemberNames(def) THEN 0
          ELSE OccurrencesIn(ast, def.name, n)

\* Returned for the permission p = a + a->q of a definition without
\* relations: two errors, for the two occurrences of a; q is the target of an
\* arrow.
C23_Witness ==
  /\ Returned
  /\ \E def \in ObjectDefinitions(ast) :
       /\ MemberNames(def) = {"p"}
       /\ def.permissions[1].expression
            = UnionExpression(<<A, ArrowExpression("arrow", A, "q")>>)
  /\ Len(ast.definitions) = 1
  /\ CountCode(result[1].errors, "UNDEFINED_IDENTIFIER") = 2

\* Some definition named typeName declares a relation or permission target.
DeclaresMember(tree, typeName, target) ==
  \E def \in ObjectDefinitions(tree) :
    def.name = typeName /\ target \in MemberNames(def)

\* The arrow/any/all nodes of e, counted with repetition, whose left side
\* infers to a list none of whose types declares the target.
RECURSIVE MissingTargets(_, _, _, _)
MissingTargets(tree, symbols, d, e) ==
  CASE e.type = "identifier" -> 0
    [] e.type \in {"union", "intersection"} ->
         Sum([i \in 1..Len(e.operands) |->
                MissingTargets(tree, symbols, d, e.operands[i])])
    [] e.type = "exclusion" ->
         MissingTargets(tree, symbols, d, e.left)
           + MissingTargets(tree, symbols, d, e.right)
    [] e.type \in ArrowKinds ->
         LET left == infer(symbols, d, e.left)
         IN  MissingTargets(tree, symbols, d, e.left)
               + IF left.kind = "list"
                    /\ \A i \in 1..Len(left.types) :
                         ~DeclaresMember(tree, left.types[i].typeName,
                                         e.target)
                 THEN 1 ELSE 0

\* C24: the errors analyze returns hold one UNDEFINED_ARROW_TARGET per
\* arrow/any/all node whose left side infers to a list (not null) no type of
\* which declares the target, and none for a node whose target is declared
\* by at least one of the resolved types or whose left side infers to null.
C24_UndefinedArrowTargetOnNoResolvedType ==
  Returned =>
    CountCode(result[1].errors, "UNDEFINED_ARROW_TARGET")
      = Sum([i \in 1..Len(ast.definitions) |->
               IF ast.definitions[i].type # "definition" THEN 0
               ELSE Sum([j \in 1..Len(ast.definitions[i].permissions) |->
                           MissingTargets(ast, symbolTable,
                             ast.definitions[i].name,
                             ast.definitions[i].permissions[j].expression)])])

\* Returned for a -> a with relation a: user | doc, whose target user lacks
\* and doc declares: no UNDEFINED_ARROW_TARGET.
C24_Witness ==
  /\ Returned
  /\ Len(ast.definitions) = 2
  /\ \E def \in ObjectDefinitions(ast) :
       /\ def.name = "doc"
       /\ def.relations = <<RelationDeclaration("a", <<User, Doc>>)>>
       /\ def.permissions
            = <<PermissionDeclaration("p", ArrowExpression("arrow", A, "a"))>>
  /\ \E def \in ObjectDefinitions(ast) : def.name = "user"
  /\ CountCode(result[1].errors, "UNDEFINED_ARROW_TARGET") = 0

\* Every subject type declared by a relation of the schema.
DeclaredSubjectTypes(tree) ==
  UNION {UNION {Range(rel.types) : rel \in Range(def.relations)} :
           def \in ObjectDefinitions(tree)}

\* C25: when analyze reports neither UNDEFINED_TYPE nor UNDEFINED_RELATION,
\* every subject type of every relation names a definition of the schema,
\* declared before or after the relation, and every sub-relation reference
\* T#r names a relation or permission declared on T.
C25_ReferencesResolveWhenNotReported ==
  (Returned
     /\ ErrorCodes(result[1].errors)
          \cap {"UNDEFINED_TYPE", "UNDEFINED_RELATION"} = {}) =>
    \A t \in DeclaredSubjectTypes(ast) :
      /\ \E def \in Range(ast.definitions) : def.name = t.typeName
      /\ t.typeName \in DOMAIN result[1].symbolTable
      /\ t.relation # Undefined => DeclaresMember(ast, t.typeName, t.relation)

\* The members of a definition whose name an earlier member (relations
\* first, then permissions) of the same definition has.
RepeatedMembers(def) ==
  Len(def.relations) + Len(def.permissions) - Cardinality(MemberNames(def))

\* C26: relations and permissions of a definition share one namespace.  The
\* errors analyze returns hold one DUPLICATE_MEMBER_NAME per member whose
\* name an earlier member of its definition has (relation/relation,
\* permission/permission or relation/permission), and none when the member
\* names of every definition are distinct.
C26_DuplicateMemberNamePerRepeatedMember ==
  Returned =>
    CountCode(result[1].errors, "DUPLICATE_MEMBER_NAME")
      = Sum([i \in 1..Len(ast.definitions) |->
               IF ast.definitions[i].type = "definition"
               THEN RepeatedMembers(ast.definitions[i])
               ELSE 0])

\* Returned for a definition with relations a and p and permission p: one
\* error, for the permission.
C26_Witness ==
  /\ Returned
  /\ Len(ast.definitions) = 1
  /\ Len(ast.definitions[1].relations) = 2
  /\ ast.definitions[1].relations[2].name = "p"
  /\ Len(ast.definitions[1].permissions) = 1
  /\ ast.definitions[1].permissions[1].name = "p"
  /\ \E i \in 1..Len(result[1].errors) :
       /\ result[1].errors[i].code = "DUPLICATE_MEMBER_NAME"
       /\ result[1].errors[i].location.permission = "p"
  /\ CountCode(result[1].errors, "DUPLICATE_MEMBER_NAME") = 1

\* The phase that reports an error code; AUGMENTATION_INTERNAL_ERROR comes
\* from no phase.
PhaseOf(code) ==
  CASE code = "DUPLICATE_DEFINITION" -> 1
    [] code \in {"DUPLICATE_MEMBER_NAME", "UNDEFINED_TYPE",
                 "UNDEFINED_RELATION", "INVALID_PARAMETER_TYPE",
                 "UNDEFINED_CAVEAT_PARAMETER"} -> 2
    [] code = "CIRCULAR_DEPENDENCY" -> 3
    [] code \in {"UNDEFINED_IDENTIFIER", "INVALID_EXPRESSION",
                 "UNDEFINED_ARROW_TARGET"} -> 4
    [] OTHER -> 6

\* What each phase reports for a schema when it starts from an empty list.
PhaseErrors(tree) ==
  LET symbols == buildSymbolTable(tree).symbols
  IN  <<buildSymbolTable(tree).errors,
        validateDefinitions(symbols, tree,
          [errors |-> <<>>, warnings |-> <<>>]).errors,
        cycleErrors(<<>>, findCycles(buildDependencyGraph(symbols, tree).graph)),
        validateExpressions(symbols, tree, <<>>).errors>>

\* The errors are those of the phases, phase after phase, none suppressed.
ErrorsOfAllPhases(errs, tree) ==
  /\ errs = Flatten(PhaseErrors(tree))
  /\ \A i, j \in 1..Len(errs) :
       i < j => PhaseOf(errs[i].code) <= PhaseOf(errs[j].code)

\* C27: analyze always runs its five phases in the order symbol table,
\* definition validation, cycle detection, expression validation, heuristic
\* checks: no call ends before the last phase, and the errors returned are
\* the errors of phase 1, then of phase 2, then of phase 3, then of phase 4,
\* each phase reporting what it reports on its own.
C27_AllPhasesInOrder ==
  /\ pc # "thrown"
  /\ Returned => ErrorsOfAllPhases(result[1].errors, ast)

\* The nodes of a graph that have a successor.
Sources(g) == {n \in DOMAIN g.adj : g.adj[n] # <<>>}

\* The cycles of a graph other than self-edges: sequences of two or more
\* distinct nodes, each with an edge to the next and the last to the first.
CyclesOf(g) ==
  {c \in UNION {[1..k -> Sources(g)] : k \in 2..Cardinality(Sources(g))} :
     /\ \A i, j \in 1..Len(c) : i # j => c[i] # c[j]
     /\ \A i \in 1..Len(c) : HasEdge(g, c[i], c[(i % Len(c)) + 1])}

\* Some CIRCULAR_DEPENDENCY error names the path of cycle c, from any of
\* its nodes back to that node.
CycleReported(errs, c) ==
  \E i \in 1..Len(errs), start \in 1..Len(c) :
    LET path == [k \in 1..(Len(c) + 1) |->
                   c[((start + k - 2) % Len(c)) + 1]]
    IN  /\ errs[i].code = "CIRCULAR_DEPENDENCY"
        /\ errs[i].message
             = "Circular dependency detected: " \o join(path, " -> ")

\* C28: every cycle of the permission dependency graph other than a direct
\* self-edge is reported: for each such cycle, also when it shares nodes or
\* edges with another, the errors analyze returns hold a
\* CIRCULAR_DEPENDENCY error naming the full path of that cycle.
C28_EveryCycleReported ==
  Returned => \A c \in CyclesOf(graph) : CycleReported(result[1].errors, c)

\* The type names the relations of the schema declare as subject types.
UsedTypeNames(tree) == {t.typeName : t \in DeclaredSubjectTypes(tree)}

\* The object-type definitions named d.
DefinitionsNamed(tree, d) ==
  Cardinality({i \in 1..Len(tree.definitions) :
                 /\ tree.definitions[i].type = "definition"
                 /\ tree.definitions[i].name = d})

\* The wildcard subject types the relations of the schema declare, each
\* counted where it is declared.
WildcardSubjectTypes(tree) ==
  Sum([i \in 1..Len(tree.definitions) |->
         IF tree.definitions[i].type # "definition" THEN 0
         ELSE Sum([j \in 1..Len(tree.definitions[i].relations) |->
                     Cardinality(
                       {k \in 1..Len(tree.definitions[i].relations[j].types) :
                          tree.definitions[i].relations[j].types[k]
                            .wildcard})])])

UnusedDefinitionWarnings(warns, d) ==
  Cardinality({i \in 1..Len(warns) :
                 /\ warns[i].code = "UNUSED_DEFINITION"
                 /\ warns[i].location.definition = d})

DefinitionNames == {"user", "doc", "only"}

\* C29: the warnings analyze returns hold one UNUSED_DEFINITION for each
\* object-type definition that is not named user and whose name no relation
\* of the schema (its own included) declares as a subject type, none for
\* another definition or for a caveat, one WILDCARD_USAGE per wildcard
\* subject type, and nothing else: EMPTY_PERMISSION is never emitted.
C29_UnusedDefinitionWarnings ==
  Returned =>
    /\ \A d \in DefinitionNames :
         UnusedDefinitionWarnings(result[1].warnings, d)
           = IF d # "user" /\ d \notin UsedTypeNames(ast)
             THEN DefinitionsNamed(ast, d)
             ELSE 0
    /\ CountCode(result[1].warnings, "WILDCARD_USAGE")
         = WildcardSubjectTypes(ast)
    /\ ErrorCodes(result[1].warnings)
         \subseteq {"UNUSED_DEFINITION", "WILDCARD_USAGE"}

\* Returned for a caveat beside a definition doc that names itself and a
\* wildcard as subject types and declares a permission: the one warning is
\* the WILDCARD_USAGE.
C29_Witness ==
  /\ Returned
  /\ \E def \in Range(ast.definitions) : def.type = "caveat"
  /\ \E def \in ObjectDefinitions(ast) :
       /\ def.relations = <<RelationDeclaration("a", <<Doc, UserWildcard>>)>>
       /\ def.permissions # <<>>
  /\ Len(result[1].warnings) = 1
  /\ result[1].warnings[1].code = "WILDCARD_USAGE"

\* The permissions of the augmented AST a result carries.
AugmentedPermissions(res) ==
  UNION {Range(def.permissions) :
           def \in {d \in Range(res.augmentedAst[1].definitions) :
                      d.type = "definition"}}

\* C30: whenever analyze returns isValid = true, every permission of the
\* augmented AST it returns has a list, not null, as inferredSubjectTypes.
C30_ValidImpliesInferredTypes ==
  (Returned /\ result[1].isValid /\ result[1].augmentedAst # <<>>) =>
    \A perm \in AugmentedPermissions(result[1]) :
      perm.inferredSubjectTypes # Null

====
